---- MODULE Spec2Model ----
(***************************************************************************)
(* Incremental load of scraped listings from object storage into a        *)
(* warehouse table (imovirtual/events).  Four entry points are modelled:  *)
(*   "main"     gcs_daily_incremental_load/main.py  (uses gcs_api.py)      *)
(*   "cloudfn"  gcs_api.process_gcs_parquet_file                           *)
(*   "prefect"  gcs_with_prefect_v2.gcs_to_bigquery_etl_flow               *)
(*   "listings" listings_gcs_daily_incremental_load/main.py                *)
(* A canonical record is reduced to its idempotency key <<k, d>>: k is    *)
(* the slug (or the listing id), d the ingestionDate.  The destination    *)
(* table is a bag of such rows: BigQuery enforces no uniqueness.          *)
(***************************************************************************)
EXTENDS Bags, FiniteSets, Integers, Sequences, TLC

\* ------------------------------------------------------------------ bounds
MaxRows == 2
MaxDay == 2
MaxRuns == 2

\* ------------------------------------------------------------------ values
\* Python None / pandas NaT / SQL NULL in a key field; not the string "None".
NULL == "null"
\* Values of the slug / id field of a raw record.
RawKeys == {"a", "b", NULL}

\* ingestionDate values: a datetime.date, a Timestamp of that day, or null.
DateOf(day) == <<"date", day>>
TsOf(day) == <<"ts", day>>
NullDate == <<"null", 0>>

Variants == {"main", "cloudfn", "prefect", "listings"}
WriteDispositions == {"WRITE_APPEND", "WRITE_TRUNCATE", "WRITE_EMPTY"}
CreateDispositions == {"CREATE_NEVER", "CREATE_IF_NEEDED"}
\* The settings of a deployment: the defaults of load_to_bigquery, and each
\* other value of one setting with the default of the other.
Configs == {<<"WRITE_APPEND", "CREATE_NEVER">>, <<"WRITE_TRUNCATE", "CREATE_NEVER">>,
            <<"WRITE_EMPTY", "CREATE_NEVER">>, <<"WRITE_APPEND", "CREATE_IF_NEEDED">>}

Range(s) == {s[i] : i \in DOMAIN s}
SeqsUpTo(S, n) == UNION {[1..m -> S] : m \in 0..n}
BagOfSeq(s) == [r \in Range(s) |-> Cardinality({i \in DOMAIN s : s[i] = r})]

\* A source object: its rows (slug/id of each raw record) and the date
\* embedded in its name (0: the name carries no _YYYY-MM-DD part).
NoFile == [present |-> FALSE, rows |-> <<>>, fdate |-> 0]
File(rows, fdate) == [present |-> TRUE, rows |-> rows, fdate |-> fdate]

\* What a finished run leaves for the next one to be compared with.
NoPrev == [ok |-> FALSE, batch |-> <<>>, clean |-> FALSE]

VARIABLES
    today,        \* date.today()
    source,       \* the latest eligible object of the bucket prefix
    dest,         \* destination table: bag of rows
    tableExists,  \* the destination table exists
    writeDisp,    \* env BQ_WRITE_DISPOSITION
    createDisp,   \* env BQ_CREATE_DISPOSITION
    variant,      \* the entry point that is deployed
    pc,           \* position of the current run
    file,         \* latest_file the run selected
    batch,        \* transformed_data
    staged,       \* rows of the temporary lookup table
    found,        \* existing_keys collected inside check_existing_keys_in_bigquery
    existing,     \* existing_keys as received by the caller
    newData,      \* new_data handed to load_to_bigquery
    tempCreated,  \* the run created its temporary lookup table
    joined,       \* the join query of the run succeeded
    delAttempted, \* delete_table was called on the temporary table
    delFailed,    \* that delete_table call raised
    err,          \* the exception that ended the run ("none": no exception)
    loads,        \* bulk load jobs the run submitted against the destination
    committed,    \* the run's load job committed
    checked,      \* check_existing_keys_in_bigquery returned in this run
    filtered,     \* filter_out_duplicates returned in this run
    destAtStart,  \* dest when the run started
    destAtLoad,   \* dest when the load job was submitted
    nRuns,        \* runs started so far
    prev,         \* summary of the previous run
    fnVariant,    \* filter_out_duplicates called on its own: the variant,
    fnDf,         \*   its df argument,
    fnKeys,       \*   its existing_keys argument,
    fnOut,        \*   the frame it returned,
    fnDone,       \*   and whether it has returned
    conPc,        \* two overlapping runs: the position of each,
    conBatch,     \*   its transformed_data,
    conExisting,  \*   its existing_keys,
    conNew,       \*   and its new_data
    clock,        \* int(time.time()): the wall clock in whole seconds
    tempTables,   \* the tables of the temporary dataset, by name
    conTemp,      \* temp_table_name of each overlapping run
    conPid,       \* os.getpid() of each overlapping run
    txFn,         \* a function called on its own: its name,
    txArg,        \*   its argument,
    txPayload,    \*   the ad_payload it read from the row,
    txRecord,     \*   the final_record its extractors filled,
    txOut,        \*   what it returned or raised,
    txDone,       \*   and whether it has returned
    retries,      \* retry_on_failure: its retries argument,
    attempts,     \*   the attempts the wrapper has left,
    invocations,  \*   the invocations of func by the current wrapper call,
    outcome,      \*   what the last invocation of func did,
    result,       \*   and how the wrapper call ended
    id_list,      \* fetch_district_data: its id_list argument,
    page_count,   \*   the page_count the site reports for each id,
    fetchPc,      \*   the position of the function,
    idx,          \*   the position of the loop in id_list,
    page,         \*   the page being fetched,
    all_data,     \*   the dict it builds,
    failedIds,    \*   and the ids whose except clause ran
    jsonContent,  \* process_json_files: what each JSON file holds,
    onDisk,       \*   the JSON files in output_dir,
    outputFile,   \*   the Parquet file at output_file,
    pjPc,         \*   the position of the function,
    json_files,   \*   the list glob returned,
    pjData,       \*   all_data, the rows collected so far,
    pjI,          \*   and the position of the loop in json_files
    slugColumn,   \* scrape_and_upload_flow: the slug column of the input,
    batch_size,   \*   the batch_size parameter,
    urls_to_scrape, \* the urls it generated,
    batchIdx,     \*   the batch being scraped,
    runCount,     \*   the executions of scrape_single_url for each url,
    taskState,    \*   the state of each task run,
    taskResult,   \*   what each task run returned,
    scPc          \*   and the position of the flow

vars == <<today, source, dest, tableExists, writeDisp, createDisp, variant, pc,
          file, batch, staged, found, existing, newData, tempCreated, joined,
          delAttempted, delFailed, err, loads, committed, checked, filtered,
          destAtStart, destAtLoad, nRuns, prev,
          fnVariant, fnDf, fnKeys, fnOut, fnDone,
          conPc, conBatch, conExisting, conNew,
          clock, tempTables, conTemp, conPid,
          txFn, txArg, txPayload, txRecord, txOut, txDone,
          retries, attempts, invocations, outcome, result,
          id_list, page_count, fetchPc, idx, page, all_data, failedIds,
          jsonContent, onDisk, outputFile, pjPc, json_files, pjData, pjI,
          slugColumn, batch_size, urls_to_scrape, batchIdx, runCount, taskState,
          taskResult, scPc>>

envVars == <<writeDisp, createDisp, variant>>
fnVars == <<fnVariant, fnDf, fnKeys, fnOut, fnDone>>
tmpVars == <<clock, tempTables, conTemp, conPid>>
conVars == <<conPc, conBatch, conExisting, conNew, tmpVars>>
\* What a single run of the pipeline never touches.
retryVars == <<retries, attempts, invocations, outcome, result>>
fetchVars == <<id_list, page_count, fetchPc, idx, page, all_data, failedIds>>
jsonVars == <<jsonContent, onDisk, outputFile, pjPc, json_files, pjData, pjI>>
scrapeVars == <<slugColumn, batch_size, urls_to_scrape, batchIdx, runCount,
                taskState, taskResult, scPc>>
auxVars == <<retryVars, fetchVars, jsonVars, scrapeVars>>
txVars == <<txFn, txArg, txPayload, txRecord, txOut, txDone, auxVars>>
otherVars == <<fnVars, conVars, txVars>>
runVars == <<file, batch, staged, found, existing, newData,
             tempCreated, joined, delAttempted, delFailed, err, loads,
             committed, checked, filtered, destAtStart, destAtLoad>>

Ended == {"done", "nothing", "exit1", "failed"}
NoDuplicates(b) == \A r \in BagToSet(b) : CopiesIn(r, b) = 1

\* ---------------------------------------------------------- transformers
\* Series.astype(str): None becomes the string "None".
astype_str(x) == IF x = NULL THEN "None" ELSE x

\* process_data (gcs_api.py and gcs_with_prefect_v2.py): one record per raw
\* row, slug cast to string, ingestionDate stamped with date.today().
process_data(rows, day) ==
    [i \in DOMAIN rows |-> <<astype_str(rows[i]), DateOf(day)>>]

\* add_ingestion_date_from_filepath: the date of the file name, or the
\* column left as the transformer set it (None) when the name has no date.
add_ingestion_date_from_filepath(fdate) ==
    IF fdate = 0 THEN NullDate ELSE DateOf(fdate)

\* transform_listings_data followed by add_ingestion_date_from_filepath:
\* one record per raw row, id kept as found (None when absent).
transform_listings_data(rows, fdate) ==
    [i \in DOMAIN rows |-> <<rows[i], add_ingestion_date_from_filepath(fdate)>>]

Transform(v, f, day) ==
    IF v = "listings" THEN transform_listings_data(f.rows, f.fdate)
    ELSE process_data(f.rows, day)

\* ---------------------------------------------------------- deduplicator
\* pd.to_datetime(col).dt.date: a Timestamp becomes the date of its day.
to_date(d) == IF d[1] = "ts" THEN DateOf(d[2]) ELSE d

\* row['ingestionDate'].date() if hasattr(row['ingestionDate'], 'date')
date_attr(d) == IF d[1] = "ts" THEN DateOf(d[2]) ELSE d

HasNull(r) == r[1] = NULL \/ r[2] = NullDate

\* lookup_df: the distinct key pairs staged into the temporary table.
\* The Prefect variant drops the pairs with a null component first.
key_pairs(v, df) ==
    IF v = "prefect"
    THEN {<<astype_str(r[1]), to_date(r[2])>> : r \in {x \in Range(df) : ~HasNull(x)}}
    ELSE {<<r[1], to_date(r[2])>> : r \in Range(df)}

\* SELECT t.slug, t.ingestionDate FROM dest t INNER JOIN temp l
\*   ON t.slug = l.slug AND t.ingestionDate = l.ingestionDate
\* SQL equality is never true of a NULL operand.  The result is used as a
\* set (set(existing_keys)), so multiplicity is dropped here.
inner_join(table, lookup) ==
    {k \in lookup : ~HasNull(k) /\ BagIn(k, table)}

\* filter_out_duplicates, gcs_api.py
filter_out_duplicates_main(df, existing_keys) ==
    LET Keep(r) == <<r[1], date_attr(r[2])>> \notin existing_keys
    IN  IF existing_keys = {} THEN df ELSE SelectSeq(df, Keep)

\* filter_out_duplicates, gcs_with_prefect_v2.py
filter_out_duplicates_prefect(df, existing_keys) ==
    LET Keep(r) == /\ r[1] # NULL
                   /\ to_date(r[2]) # NullDate
                   /\ <<r[1], to_date(r[2])>> \notin existing_keys
    IN  IF df = <<>> \/ existing_keys = {} THEN df ELSE SelectSeq(df, Keep)

\* filter_out_duplicates, listings_gcs_daily_incremental_load/main.py
filter_out_duplicates_listings(df, existing_keys) ==
    LET Keep(r) == <<r[1], r[2]>> \notin existing_keys
    IN  SelectSeq(df, Keep)

filter_out_duplicates(v, df, existing_keys) ==
    CASE v = "prefect"  -> filter_out_duplicates_prefect(df, existing_keys)
      [] v = "listings" -> filter_out_duplicates_listings(df, existing_keys)
      [] OTHER          -> filter_out_duplicates_main(df, existing_keys)

\* ---------------------------------------------------------------- loader
\* BigQuery's verdict on a load job: CREATE_NEVER needs the table to exist,
\* WRITE_EMPTY needs it to be empty.
JobAccepted(exists, table, wd, cd) ==
    /\ exists \/ cd = "CREATE_IF_NEEDED"
    /\ wd = "WRITE_EMPTY" => table = EmptyBag

\* A loader that inserts row by row and stops after the first row.
BulkLoadRowByRow(table, rows, wd) ==
    IF rows = <<>> THEN table ELSE table (+) BagOfSeq(<<rows[1]>>)

\* A loader that re-checks the table and inserts only the rows it lacks.
BulkLoadMerge(table, rows, wd) ==
    LET Missing(r) == ~BagIn(r, table)
    IN  table (+) SetToBag(Range(SelectSeq(rows, Missing)))

\* The table after a committed load job: the whole batch at once, appended
\* or, under WRITE_TRUNCATE, in place of the previous rows.
BulkLoad(table, rows, wd) ==
    IF wd = "WRITE_TRUNCATE" THEN BagOfSeq(rows) ELSE table (+) BagOfSeq(rows)

\* load_to_bigquery returns at once on an empty frame (Prefect variant only).
SkipsEmptyLoad(v, df) == v = "prefect" /\ df = <<>>

\* A cleanup whose delete_table error is left to propagate.
CleanupErrorPropagates(primary, deleteRaised) ==
    IF deleteRaised THEN "delete" ELSE primary

\* After the cleanup of the temporary table: the exception that leaves
\* check_existing_keys_in_bigquery.  A failed delete_table is logged as a
\* warning and swallowed, so the primary outcome stands.
CleanupError(primary, deleteRaised) == primary

\* ------------------------------------------------------------------- init

InitRun ==
    /\ pc = "idle"
    /\ file = NoFile
    /\ batch = <<>>
    /\ staged = {}
    /\ found = {}
    /\ existing = {}
    /\ newData = <<>>
    /\ tempCreated = FALSE
    /\ joined = FALSE
    /\ delAttempted = FALSE
    /\ delFailed = FALSE
    /\ err = "none"
    /\ loads = 0
    /\ committed = FALSE
    /\ checked = FALSE
    /\ filtered = FALSE
    /\ destAtStart = dest
    /\ destAtLoad = dest
    /\ nRuns = 0
    /\ prev = NoPrev

InitFn ==
    /\ fnVariant = "main"
    /\ fnDf = <<>>
    /\ fnKeys = {}
    /\ fnOut = <<>>
    /\ fnDone = FALSE

Runs == {1, 2}

InitTmp ==
    /\ clock = 1
    /\ tempTables = <<>>
    /\ conTemp = [r \in Runs |-> <<>>]
    /\ conPid = [r \in Runs |-> r]

InitCon ==
    /\ conPc = [r \in Runs |-> "idle"]
    /\ conBatch = [r \in Runs |-> <<>>]
    /\ conExisting = [r \in Runs |-> {}]
    /\ conNew = [r \in Runs |-> <<>>]
    /\ InitTmp

InitJson ==
    /\ jsonContent = <<>>
    /\ onDisk = {}
    /\ outputFile = [state |-> "absent", rows |-> <<>>]
    /\ pjPc = "idle"
    /\ json_files = <<>>
    /\ pjData = <<>>
    /\ pjI = 1

InitScrape ==
    /\ slugColumn = <<>>
    /\ batch_size = 1
    /\ urls_to_scrape = <<>>
    /\ batchIdx = 1
    /\ runCount = <<>>
    /\ taskState = <<>>
    /\ taskResult = <<>>
    /\ scPc = "idle"

InitAux ==
    /\ retries = 0
    /\ attempts = 0
    /\ invocations = 0
    /\ outcome = "none"
    /\ result = "none"
    /\ id_list = <<>>
    /\ page_count = <<>>
    /\ fetchPc = "idle"
    /\ idx = 1
    /\ page = 1
    /\ all_data = <<>>
    /\ failedIds = {}
    /\ InitJson
    /\ InitScrape

InitTx ==
    /\ InitAux
    /\ txFn = "none"
    /\ txArg = <<>>
    /\ txPayload = <<>>
    /\ txRecord = <<>>
    /\ txOut = <<>>
    /\ txDone = FALSE

Init ==
    /\ today = 1
    /\ source = NoFile
    /\ tableExists \in BOOLEAN
    /\ dest = EmptyBag
    /\ \E c \in Configs : writeDisp = c[1] /\ createDisp = c[2]
    /\ variant \in Variants
    /\ InitRun
    /\ InitFn
    /\ InitCon
    /\ InitTx

\* ------------------------------------------------------------ environment
\* The scraper writes a new object; it becomes the latest one.  Only the
\* listings script reads the date in the object's name.
FileDates == IF variant = "listings" THEN {0, today} ELSE {0}

Upload(rows, fd) ==
    /\ pc = "idle"
    /\ source' = File(rows, fd)
    /\ UNCHANGED <<today, dest, tableExists, envVars, pc, runVars, nRuns, prev, otherVars>>

\* Midnight passes.
Tick ==
    /\ pc = "idle"
    /\ today < MaxDay
    /\ today' = today + 1
    /\ UNCHANGED <<source, dest, tableExists, envVars, pc, runVars, nRuns, prev, otherVars>>

\* ---------------------------------------------------------------- the run
\* The entry point is invoked.  The Cloud Function is triggered by an object.
StartRun ==
    /\ pc = "idle"
    /\ nRuns < MaxRuns
    /\ variant = "cloudfn" => source.present
    /\ nRuns' = nRuns + 1
    /\ pc' = "find"
    /\ UNCHANGED <<today, source, dest, tableExists, envVars, runVars, prev, otherVars>>

\* find_latest_file_in_gcs and the caller's test of its result.  main.py of
\* both scripts exits with status 1 on None (no object, or a listing error
\* swallowed by the function); the Prefect flow returns on None and fails
\* on a listing error; the Cloud Function takes the object of its event.
FindLatest ==
    /\ pc = "find"
    /\ \/ /\ source.present
          /\ file' = source
          /\ pc' = "read"
          /\ err' = err
       \/ /\ ~source.present
          /\ file' = file
          /\ pc' = IF variant = "prefect" THEN "nothing" ELSE "exit1"
          /\ err' = err
       \/ /\ variant # "cloudfn"
          /\ file' = file
          /\ pc' = IF variant = "prefect" THEN "failed" ELSE "exit1"
          /\ err' = IF variant = "prefect" THEN "list" ELSE err
    /\ UNCHANGED <<today, source, dest, tableExists, envVars, batch,
                   staged, found, existing, newData, tempCreated, joined,
                   delAttempted, delFailed, loads, committed, checked, filtered,
                   destAtStart, destAtLoad, nRuns, prev, otherVars>>

\* read_parquet_from_gcs: the download succeeds or raises.
ReadParquet ==
    /\ pc = "read"
    /\ \/ pc' = "transform" /\ err' = err
       \/ pc' = "failed" /\ err' = "read"
    /\ UNCHANGED <<today, source, dest, tableExists, envVars, file, batch,
                   staged, found, existing, newData, tempCreated, joined,
                   delAttempted, delFailed, loads, committed, checked, filtered,
                   destAtStart, destAtLoad, nRuns, prev, otherVars>>

\* The transformer, and where the entry point goes next: the Cloud Function
\* hands the transformed frame to load_to_bigquery; the Prefect flow skips
\* the key check and the filter when the frame is empty.
ProcessData ==
    /\ pc = "transform"
    /\ batch' = Transform(variant, file, today)
    /\ IF variant = "cloudfn" \/ (variant = "prefect" /\ batch' = <<>>)
       THEN newData' = batch' /\ pc' = "load"
       ELSE newData' = newData /\ pc' = "check"
    /\ UNCHANGED <<today, source, dest, tableExists, envVars, file,
                   staged, found, existing, tempCreated, joined,
                   delAttempted, delFailed, err, loads, committed, checked, filtered,
                   destAtStart, destAtLoad, nRuns, prev, otherVars>>

\* check_existing_keys_in_bigquery, up to the temporary table: the distinct
\* key pairs are taken; none means return [].  The listings transformer
\* returns a frame without columns for no input, and df[['id',
\* 'ingestionDate']] raises KeyError on it.
CheckKeys ==
    /\ pc = "check"
    /\ IF variant = "listings" /\ batch = <<>>
       THEN pc' = "failed" /\ err' = "KeyError" /\ checked' = checked
       ELSE IF key_pairs(variant, batch) = {}
       THEN pc' = "filter" /\ err' = err /\ checked' = TRUE
       ELSE /\ pc' = IF variant = "prefect" THEN "stage" ELSE "create_temp"
            /\ err' = err
            /\ checked' = checked
    /\ UNCHANGED <<today, source, dest, tableExists, envVars, file, batch,
                   staged, found, existing, newData, tempCreated, joined,
                   delAttempted, delFailed, loads, committed, filtered,
                   destAtStart, destAtLoad, nRuns, prev, otherVars>>

\* bq_client.create_table(table, exists_ok=True) (gcs_api.py, listings):
\* the temporary table is created, or the client, the dataset or the call
\* raises and the broad except re-raises.
CreateTemp ==
    /\ pc = "create_temp"
    /\ \/ tempCreated' = TRUE /\ pc' = "stage" /\ err' = err
       \/ tempCreated' = tempCreated /\ pc' = "failed" /\ err' = "create_temp"
    /\ UNCHANGED <<today, source, dest, tableExists, envVars, file, batch,
                   staged, found, existing, newData, joined,
                   delAttempted, delFailed, loads, committed, checked, filtered,
                   destAtStart, destAtLoad, nRuns, prev, otherVars>>

\* load_table_from_dataframe(lookup_df, temp_table_id).result(): the key
\* pairs are staged (the Prefect variant lets this load create the table),
\* or the job raises.  Only the Prefect variant has a finally clause.
StageLoad ==
    /\ pc = "stage"
    /\ \/ /\ staged' = key_pairs(variant, batch)
          /\ tempCreated' = TRUE
          /\ pc' = "query"
          /\ err' = err
       \/ /\ staged' = staged
          /\ tempCreated' = tempCreated
          /\ pc' = IF variant = "prefect" THEN "cleanup" ELSE "failed"
          /\ err' = "stage"
    /\ UNCHANGED <<today, source, dest, tableExists, envVars, file, batch,
                   found, existing, newData, joined,
                   delAttempted, delFailed, loads, committed, checked, filtered,
                   destAtStart, destAtLoad, nRuns, prev, otherVars>>

\* bq_client.query(join) and the loop over its rows: the keys on both
\* sides, or the query raises (always so when the destination is missing).
Query ==
    /\ pc = "query"
    /\ \/ /\ tableExists
          /\ found' = inner_join(dest, staged)
          /\ joined' = TRUE
          /\ pc' = "cleanup"
          /\ err' = err
       \/ /\ found' = found
          /\ joined' = joined
          /\ pc' = IF variant = "prefect" THEN "cleanup" ELSE "failed"
          /\ err' = "query"
    /\ UNCHANGED <<today, source, dest, tableExists, envVars, file, batch,
                   staged, existing, newData, tempCreated,
                   delAttempted, delFailed, loads, committed, checked, filtered,
                   destAtStart, destAtLoad, nRuns, prev, otherVars>>

\* bq_client.delete_table(temp_table_id) inside its own try/except, then
\* the return of existing_keys (or, in the Prefect variant's finally, the
\* re-raise of the primary exception).
DeleteTemp ==
    /\ pc = "cleanup"
    /\ delAttempted' = TRUE
    /\ \E raised \in BOOLEAN :
          /\ delFailed' = raised
          /\ err' = CleanupError(err, raised)
    /\ IF err' = "none"
       THEN existing' = found /\ checked' = TRUE /\ pc' = "filter"
       ELSE existing' = existing /\ checked' = checked /\ pc' = "failed"
    /\ UNCHANGED <<today, source, dest, tableExists, envVars, file, batch,
                   staged, found, newData, tempCreated, joined,
                   loads, committed, filtered,
                   destAtStart, destAtLoad, nRuns, prev, otherVars>>

\* filter_out_duplicates(transformed_data, existing_keys)
Filter ==
    /\ pc = "filter"
    /\ newData' = filter_out_duplicates(variant, batch, existing)
    /\ filtered' = TRUE
    /\ pc' = "load"
    /\ UNCHANGED <<today, source, dest, tableExists, envVars, file, batch,
                   staged, found, existing, tempCreated, joined,
                   delAttempted, delFailed, err, loads, committed, checked,
                   destAtStart, destAtLoad, nRuns, prev, otherVars>>

\* load_to_bigquery up to load_table_from_dataframe: the Prefect variant
\* returns on an empty frame; otherwise one load job is submitted, or the
\* submission raises.
LoadSubmit ==
    /\ pc = "load"
    /\ IF SkipsEmptyLoad(variant, newData)
       THEN pc' = "done" /\ loads' = loads /\ destAtLoad' = destAtLoad /\ err' = err
       ELSE \/ pc' = "job" /\ loads' = loads + 1 /\ destAtLoad' = dest /\ err' = err
            \/ pc' = "failed" /\ loads' = loads /\ destAtLoad' = destAtLoad /\ err' = "load"
    /\ UNCHANGED <<today, source, dest, tableExists, envVars, file, batch,
                   staged, found, existing, newData, tempCreated, joined,
                   delAttempted, delFailed, committed, checked, filtered,
                   destAtStart, nRuns, prev, otherVars>>

\* job.result(): the load job commits the whole frame, or fails and
\* changes nothing.
JobResult ==
    /\ pc = "job"
    /\ \/ /\ JobAccepted(tableExists, dest, writeDisp, createDisp)
          /\ dest' = BulkLoad(dest, newData, writeDisp)
          /\ tableExists' = TRUE
          /\ committed' = TRUE
          /\ pc' = "get_table"
          /\ err' = err
       \/ /\ dest' = dest
          /\ tableExists' = tableExists
          /\ committed' = committed
          /\ pc' = "failed"
          /\ err' = "load"
    /\ UNCHANGED <<today, source, envVars, file, batch,
                   staged, found, existing, newData, tempCreated, joined,
                   delAttempted, delFailed, loads, checked, filtered,
                   destAtStart, destAtLoad, nRuns, prev, otherVars>>

\* bq_client.get_table(full_table_id) for the row count in the log line:
\* it is inside the same try, so its exception leaves load_to_bigquery.
GetTable ==
    /\ pc = "get_table"
    /\ \/ pc' = "done" /\ err' = err
       \/ pc' = "failed" /\ err' = "get_table"
    /\ UNCHANGED <<today, source, dest, tableExists, envVars, file, batch,
                   staged, found, existing, newData, tempCreated, joined,
                   delAttempted, delFailed, loads, committed, checked, filtered,
                   destAtStart, destAtLoad, nRuns, prev, otherVars>>

\* The process exits; nothing of the run is kept but what it wrote to the
\* destination.  prev remembers the batch of a run that completed.
EndRun ==
    /\ pc \in Ended
    /\ pc' = "idle"
    /\ prev' = IF pc = "done" /\ checked /\ filtered
               THEN [ok |-> TRUE, batch |-> batch, clean |-> NoDuplicates(destAtStart)]
               ELSE NoPrev
    /\ file' = NoFile
    /\ batch' = <<>>
    /\ staged' = {}
    /\ found' = {}
    /\ existing' = {}
    /\ newData' = <<>>
    /\ tempCreated' = FALSE
    /\ joined' = FALSE
    /\ delAttempted' = FALSE
    /\ delFailed' = FALSE
    /\ err' = "none"
    /\ loads' = 0
    /\ committed' = FALSE
    /\ checked' = FALSE
    /\ filtered' = FALSE
    /\ destAtStart' = dest
    /\ destAtLoad' = dest
    /\ UNCHANGED <<today, source, dest, tableExists, envVars, nRuns, otherVars>>

Next ==
    \/ \E rows \in SeqsUpTo(RawKeys, MaxRows), fd \in FileDates : Upload(rows, fd)
    \/ Tick
    \/ StartRun
    \/ FindLatest
    \/ ReadParquet
    \/ ProcessData
    \/ CheckKeys
    \/ CreateTemp
    \/ StageLoad
    \/ Query
    \/ DeleteTemp
    \/ Filter
    \/ LoadSubmit
    \/ JobResult
    \/ GetTable
    \/ EndRun

Spec == Init /\ [][Next]_vars

\* ------------------------------------------- filter_out_duplicates alone
\* The function applied to any frame and any key list, not only to those a
\* run produces: ingestionDate may be a date, a Timestamp or null, and a
\* key field may be null.
FilterKeyValues == {"a", NULL}
FilterRows == {<<k, d>> : k \in FilterKeyValues, d \in {DateOf(1), TsOf(1), NullDate}}
FilterKeys == {<<k, d>> : k \in FilterKeyValues, d \in {DateOf(1), NullDate}}

InitFilter ==
    /\ today = 1
    /\ source = NoFile
    /\ tableExists = TRUE
    /\ dest = EmptyBag
    /\ writeDisp = "WRITE_APPEND"
    /\ createDisp = "CREATE_NEVER"
    /\ variant = "main"
    /\ InitRun
    /\ fnVariant \in {"main", "prefect", "listings"}
    /\ fnDf \in SeqsUpTo(FilterRows, MaxRows)
    /\ fnKeys \in SUBSET FilterKeys
    /\ fnOut = <<>>
    /\ fnDone = FALSE
    /\ InitCon
    /\ InitTx

ApplyFilter ==
    /\ ~fnDone
    /\ fnOut' = filter_out_duplicates(fnVariant, fnDf, fnKeys)
    /\ fnDone' = TRUE
    /\ UNCHANGED <<today, source, dest, tableExists, envVars, pc, runVars, nRuns,
                   prev, fnVariant, fnDf, fnKeys, conVars, txVars>>

NextFilter == ApplyFilter

SpecFilter == InitFilter /\ [][NextFilter]_vars

\* ------------------------------------------------- two overlapping runs
\* Two invocations of one entry point at the same time, each on its own
\* transformed batch, against one destination table.  Each run is the
\* sequence check_existing_keys_in_bigquery, filter_out_duplicates,
\* load_to_bigquery; the destination is read by the join query of the
\* first and written by the load job of the last, and nothing else is
\* shared between the runs.
ConVariants == {"main", "prefect", "listings"}
ConKeys == {"a", "b"}

InitConcurrent ==
    /\ today = 1
    /\ source = NoFile
    /\ tableExists = TRUE
    /\ dest \in {EmptyBag, SetToBag({<<"b", DateOf(1)>>})}
    /\ writeDisp = "WRITE_APPEND"
    /\ createDisp = "CREATE_NEVER"
    /\ variant \in ConVariants
    /\ InitRun
    /\ InitFn
    /\ conPc = [r \in Runs |-> "check"]
    /\ \E rows \in [Runs -> SeqsUpTo(ConKeys, MaxRows)] :
          conBatch = [r \in Runs |-> Transform(variant, File(rows[r], today), today)]
    /\ conExisting = [r \in Runs |-> {}]
    /\ conNew = [r \in Runs |-> <<>>]
    /\ InitTmp
    /\ InitTx

ConCheck(r) ==
    /\ conPc[r] = "check"
    /\ \/ /\ ~(variant = "listings" /\ conBatch[r] = <<>>)
          /\ conExisting' = [conExisting EXCEPT
                                ![r] = inner_join(dest, key_pairs(variant, conBatch[r]))]
          /\ conPc' = [conPc EXCEPT ![r] = "filter"]
       \/ /\ conPc' = [conPc EXCEPT ![r] = "failed"]
          /\ UNCHANGED conExisting
    /\ UNCHANGED <<today, source, dest, tableExists, envVars, pc, runVars, nRuns,
                   prev, fnVars, txVars, tmpVars, conBatch, conNew>>

ConFilter(r) ==
    /\ conPc[r] = "filter"
    /\ conNew' = [conNew EXCEPT
                    ![r] = filter_out_duplicates(variant, conBatch[r], conExisting[r])]
    /\ conPc' = [conPc EXCEPT ![r] = "load"]
    /\ UNCHANGED <<today, source, dest, tableExists, envVars, pc, runVars, nRuns,
                   prev, fnVars, txVars, tmpVars, conBatch, conExisting>>

ConLoad(r) ==
    /\ conPc[r] = "load"
    /\ \/ /\ SkipsEmptyLoad(variant, conNew[r])
          /\ conPc' = [conPc EXCEPT ![r] = "done"]
          /\ UNCHANGED dest
       \/ /\ ~SkipsEmptyLoad(variant, conNew[r])
          /\ JobAccepted(tableExists, dest, writeDisp, createDisp)
          /\ dest' = BulkLoad(dest, conNew[r], writeDisp)
          /\ conPc' = [conPc EXCEPT ![r] = "done"]
       \/ /\ ~SkipsEmptyLoad(variant, conNew[r])
          /\ conPc' = [conPc EXCEPT ![r] = "failed"]
          /\ UNCHANGED dest
    /\ UNCHANGED <<today, source, tableExists, envVars, pc, runVars, nRuns,
                   prev, fnVars, txVars, tmpVars, conBatch, conExisting, conNew>>

NextConcurrent == \E r \in Runs : ConCheck(r) \/ ConFilter(r) \/ ConLoad(r)

SpecConcurrent == InitConcurrent /\ [][NextConcurrent]_vars

\* ------------------------------------- the temporary lookup table, shared
\* Two invocations of check_existing_keys_in_bigquery at the same time
\* against one temporary dataset.  Each is the sequence of its client
\* calls: the table is named, created (gcs_api.py, listings), loaded with
\* the key pairs, joined with the destination and deleted.  The dataset
\* holds its tables by name, so two invocations that compute one name
\* work on one table.
MaxClock == 2
Pids == {1, 2}

\* temp_table_name: temp_lookup_{int(time.time())}, and in the Prefect
\* variant temp_lookup_{int(time.time())}_{os.getpid()}.
temp_table_name(v, seconds, pid) ==
    IF v = "prefect" THEN <<seconds, pid>> ELSE <<seconds>>

TableExists(name) == name \in DOMAIN tempTables
WithTable(tables, name, rows) ==
    [n \in DOMAIN tables \cup {name} |-> IF n = name THEN rows ELSE tables[n]]
WithoutTable(tables, name) == [n \in DOMAIN tables \ {name} |-> tables[n]]

InitTemp ==
    /\ today = 1
    /\ source = NoFile
    /\ tableExists = TRUE
    /\ dest \in {EmptyBag, SetToBag({<<"b", DateOf(1)>>})}
    /\ writeDisp = "WRITE_APPEND"
    /\ createDisp = "CREATE_NEVER"
    /\ variant \in ConVariants
    /\ InitRun
    /\ InitFn
    /\ conPc = [r \in Runs |-> "name"]
    /\ \E rows \in [Runs -> SeqsUpTo(ConKeys, MaxRows)] :
          conBatch = [r \in Runs |-> Transform(variant, File(rows[r], today), today)]
    /\ conExisting = [r \in Runs |-> {}]
    /\ conNew = [r \in Runs |-> <<>>]
    /\ clock = 1
    /\ tempTables = <<>>
    /\ conTemp = [r \in Runs |-> <<>>]
    /\ conPid \in [Runs -> Pids]
    /\ InitTx

TempFrame == UNCHANGED <<today, source, dest, tableExists, envVars, pc, runVars,
                         nRuns, prev, fnVars, txVars, conBatch, conNew, conPid>>

\* time.time() moves on by a second.
TempTick ==
    /\ clock < MaxClock
    /\ clock' = clock + 1
    /\ UNCHANGED <<conPc, conExisting, tempTables, conTemp>>
    /\ TempFrame

\* key_pairs and temp_table_name: no key pair returns [] at once (the
\* listings frame without rows has no slug column and raises).
TempName(r) ==
    /\ conPc[r] = "name"
    /\ IF variant = "listings" /\ conBatch[r] = <<>>
       THEN conPc' = [conPc EXCEPT ![r] = "failed"] /\ UNCHANGED conTemp
       ELSE IF key_pairs(variant, conBatch[r]) = {}
       THEN conPc' = [conPc EXCEPT ![r] = "done"] /\ UNCHANGED conTemp
       ELSE /\ conTemp' = [conTemp EXCEPT
                             ![r] = temp_table_name(variant, clock, conPid[r])]
            /\ conPc' = [conPc EXCEPT
                           ![r] = IF variant = "prefect" THEN "stage" ELSE "create"]
    /\ UNCHANGED <<clock, conExisting, tempTables>>
    /\ TempFrame

\* bq_client.create_table(table, exists_ok=True): a table of that name is
\* left as it is.
TempCreate(r) ==
    /\ conPc[r] = "create"
    /\ tempTables' = IF TableExists(conTemp[r]) THEN tempTables
                     ELSE WithTable(tempTables, conTemp[r], {})
    /\ conPc' = [conPc EXCEPT ![r] = "stage"]
    /\ UNCHANGED <<clock, conExisting, conTemp>>
    /\ TempFrame

\* load_table_from_dataframe(lookup_df, temp_table_id) with WRITE_TRUNCATE:
\* the rows of the table are replaced by the key pairs; the load creates a
\* missing table.
TempStage(r) ==
    /\ conPc[r] = "stage"
    /\ tempTables' = WithTable(tempTables, conTemp[r], key_pairs(variant, conBatch[r]))
    /\ conPc' = [conPc EXCEPT ![r] = "query"]
    /\ UNCHANGED <<clock, conExisting, conTemp>>
    /\ TempFrame

\* bq_client.query(join): the keys on both sides; NotFound when the
\* temporary table is gone (the Prefect variant then runs its finally).
TempQuery(r) ==
    /\ conPc[r] = "query"
    /\ IF TableExists(conTemp[r])
       THEN /\ conExisting' = [conExisting EXCEPT
                                 ![r] = inner_join(dest, tempTables[conTemp[r]])]
            /\ conPc' = [conPc EXCEPT ![r] = "cleanup"]
       ELSE /\ conPc' = [conPc EXCEPT
                           ![r] = IF variant = "prefect" THEN "cleanup_failed"
                                  ELSE "failed"]
            /\ UNCHANGED conExisting
    /\ UNCHANGED <<clock, tempTables, conTemp>>
    /\ TempFrame

\* bq_client.delete_table(temp_table_id) in its own try/except: the table
\* is dropped, or the call raises, which is logged and nothing more.
TempDelete(r) ==
    /\ conPc[r] \in {"cleanup", "cleanup_failed"}
    /\ \E raised \in BOOLEAN :
          tempTables' = IF raised THEN tempTables
                        ELSE WithoutTable(tempTables, conTemp[r])
    /\ conPc' = [conPc EXCEPT
                   ![r] = IF conPc[r] = "cleanup" THEN "done" ELSE "failed"]
    /\ UNCHANGED <<clock, conExisting, conTemp>>
    /\ TempFrame

NextTemp ==
    \/ TempTick
    \/ \E r \in Runs : TempName(r)
    \/ \E r \in Runs : TempCreate(r)
    \/ \E r \in Runs : TempStage(r)
    \/ \E r \in Runs : TempQuery(r)
    \/ \E r \in Runs : TempDelete(r)

SpecTemp == InitTemp /\ [][NextTemp]_vars

\* ------------------------------------------------- values of a document
\* A raw document is a nested Python value.  Each value carries its type:
\* None, str, int, bool, dict (its items, key and value, in insertion
\* order), list, and the numpy array that a list column read from Parquet
\* arrives as.
VNull == [t |-> "null"]
VStr(x) == [t |-> "str", str |-> x]
VNum(x) == [t |-> "int", int |-> x]
VBool(x) == [t |-> "bool", bool |-> x]
VDict(x) == [t |-> "dict", items |-> x]
VList(x) == [t |-> "list", elts |-> x]
VArr(x) == [t |-> "ndarray", arr |-> x]
EmptyDict == VDict(<<>>)
EmptyList == VList(<<>>)

IsDict(x) == x.t = "dict"
IsList(x) == x.t = "list"
IsStr(x) == x.t = "str"
KeysOf(d) == {d.items[i][1] : i \in DOMAIN d.items}
\* d[key], for a key of d
Item(d, key) == d.items[CHOOSE i \in DOMAIN d.items : d.items[i][1] = key][2]
\* key in d, for a dict d: the keys of a document are strings.
HasKey(d, key) == key.t = "str" /\ key.str \in KeysOf(d)
\* d.get(key, default)
DictGetOr(d, key, default) == IF key \in KeysOf(d) THEN Item(d, key) ELSE default
\* d.get(key): None when the key is absent.
DictGet(d, key) == DictGetOr(d, key, VNull)

\* What a call returned, or the exception it raised.
Returned(value) == [raised |-> "none", value |-> value]
Raised(exc) == [raised |-> exc, value |-> VNull]

\* ------------------------------------------------ nested field extractors
\* get_nested_value(data_dict, keys, default) of transforms_core.py: the
\* loop from position i of keys, with current the value reached so far.
RECURSIVE get_nested_loop(_, _, _, _)
get_nested_loop(current, keys, i, default) ==
    IF i > Len(keys) THEN current
    ELSE IF IsDict(current) /\ HasKey(current, keys[i])
         THEN LET value == Item(current, keys[i].str)
              IN  IF value # VNull THEN get_nested_loop(value, keys, i + 1, default)
                  ELSE IF i = Len(keys) THEN VNull
                  ELSE default
         ELSE default

get_nested_value(data_dict, keys, default) ==
    IF ~IsDict(data_dict) THEN default
    ELSE get_nested_loop(data_dict, keys, 1, default)

\* safe_get(data, keys, default) inside the Prefect process_data.
RECURSIVE safe_get_loop(_, _, _, _)
safe_get_loop(temp, keys, i, default) ==
    IF i > Len(keys) THEN (IF temp # VNull THEN temp ELSE default)
    ELSE IF IsDict(temp)
         THEN safe_get_loop(IF HasKey(temp, keys[i]) THEN Item(temp, keys[i].str) ELSE VNull,
                            keys, i + 1, default)
         ELSE default

safe_get(data, keys, default) ==
    IF ~IsDict(data) THEN default
    ELSE safe_get_loop(data, keys, 1, default)

\* ------------------------------------------------------ string arrays
\* json.dumps(x, ensure_ascii=False) and str(x) / repr(x), as text.
RECURSIVE json_dumps(_), json_elts(_, _), json_items(_, _)
json_dumps(x) ==
    CASE x.t = "null" -> "null"
      [] x.t = "str"  -> "\"" \o x.str \o "\""
      [] x.t = "int"  -> ToString(x.int)
      [] x.t = "bool" -> (IF x.bool THEN "true" ELSE "false")
      [] x.t = "list" -> "[" \o json_elts(x.elts, 1) \o "]"
      [] x.t = "dict" -> "{" \o json_items(x.items, 1) \o "}"
json_elts(l, i) ==
    IF i > Len(l) THEN ""
    ELSE json_dumps(l[i]) \o (IF i < Len(l) THEN ", " ELSE "") \o json_elts(l, i + 1)
json_items(d, i) ==
    IF i > Len(d) THEN ""
    ELSE "\"" \o d[i][1] \o "\": " \o json_dumps(d[i][2])
         \o (IF i < Len(d) THEN ", " ELSE "") \o json_items(d, i + 1)

RECURSIVE py_repr(_), repr_elts(_, _), repr_items(_, _)
py_repr(x) ==
    CASE x.t = "null" -> "None"
      [] x.t = "str"  -> "'" \o x.str \o "'"
      [] x.t = "int"  -> ToString(x.int)
      [] x.t = "bool" -> (IF x.bool THEN "True" ELSE "False")
      [] x.t = "list" -> "[" \o repr_elts(x.elts, 1) \o "]"
      [] x.t = "dict" -> "{" \o repr_items(x.items, 1) \o "}"
repr_elts(l, i) ==
    IF i > Len(l) THEN ""
    ELSE py_repr(l[i]) \o (IF i < Len(l) THEN ", " ELSE "") \o repr_elts(l, i + 1)
repr_items(d, i) ==
    IF i > Len(d) THEN ""
    ELSE "'" \o d[i][1] \o "': " \o py_repr(d[i][2])
         \o (IF i < Len(d) THEN ", " ELSE "") \o repr_items(d, i + 1)

py_str(x) == IF IsStr(x) THEN x.str ELSE py_repr(x)

\* A variant of the list normalisation that leaves null items out.
process_list_skipping_nulls(data_list) ==
    IF ~IsList(data_list) THEN EmptyList
    ELSE LET NotNull(item) == item # VNull
             kept == SelectSeq(data_list.elts, NotNull)
         IN  VList([i \in DOMAIN kept |-> VStr(py_str(kept[i]))])

\* The body of the loop of process_list_for_array_string.
array_string_item(item) ==
    CASE IsStr(item)   -> item
      [] IsDict(item)  -> VStr(json_dumps(item))
      [] item = VNull -> VStr("")
      [] OTHER         -> VStr(py_str(item))

process_list_for_array_string(data_list) ==
    IF ~IsList(data_list) THEN EmptyList
    ELSE VList([i \in DOMAIN data_list.elts |-> array_string_item(data_list.elts[i])])

\* ------------------------------------------------------ listing records
\* Values a canonical record holds beside those of the document: a float
\* (whole + 0.5 if half), a pandas Timestamp (by its text), a date (by its
\* day number).
VFloat(whole, half) == [t |-> "float", whole |-> whole, half |-> half]
VTs(x) == [t |-> "Timestamp", ts |-> x]
VDate(day) == [t |-> "date", day |-> day]

\* bool(x) of Python: what "if x" tests.
Truthy(x) ==
    CASE x.t = "null" -> FALSE
      [] x.t = "str"  -> x.str # ""
      [] x.t = "int"  -> x.int # 0
      [] x.t = "bool" -> x.bool
      [] x.t = "list" -> x.elts # <<>>
      [] x.t = "dict" -> x.items # <<>>
      [] OTHER        -> TRUE

\* d[key] = value: an existing key keeps its place, a new key goes last.
DictSet(d, key, value) ==
    IF key \in KeysOf(d)
    THEN VDict([i \in DOMAIN d.items |->
                  IF d.items[i][1] = key THEN <<key, value>> ELSE d.items[i]])
    ELSE VDict(Append(d.items, <<key, value>>))

\* The dict a run of d[key] = value assignments builds: a key stands where
\* it was first written and holds what was written last.
DictOf(items) ==
    LET indices == [i \in DOMAIN items |-> i]
        IsFirst(i) == \A j \in 1..(i - 1) : items[j][1] # items[i][1]
        Last(key) == CHOOSE j \in DOMAIN items :
                        /\ items[j][1] = key
                        /\ \A k \in (j + 1)..Len(items) : items[k][1] # key
        firsts == SelectSeq(indices, IsFirst)
    IN  VDict([n \in DOMAIN firsts |->
                 <<items[firsts[n]][1], items[Last(items[firsts[n]][1])][2]>>])

\* d.update(e)
DictUpdate(d, e) == DictOf(d.items \o e.items)

\* normalize_structure: numpy arrays become lists, at every depth.
RECURSIVE normalize_structure(_)
normalize_structure(data) ==
    CASE data.t = "ndarray" ->
             VList([i \in DOMAIN data.arr |-> normalize_structure(data.arr[i])])
      [] data.t = "dict" ->
             VDict([i \in DOMAIN data.items |->
                      <<data.items[i][1], normalize_structure(data.items[i][2])>>])
      [] data.t = "list" ->
             VList([i \in DOMAIN data.elts |-> normalize_structure(data.elts[i])])
      [] OTHER -> data

\* remove_typename_recursive
RECURSIVE remove_typename_recursive(_)
remove_typename_recursive(data) ==
    CASE data.t = "dict" ->
             LET NotTypename(kv) == kv[1] # "__typename"
                 kept == SelectSeq(data.items, NotTypename)
             IN  VDict([i \in DOMAIN kept |->
                          <<kept[i][1], remove_typename_recursive(kept[i][2])>>])
      [] data.t = "list" ->
             VList([i \in DOMAIN data.elts |-> remove_typename_recursive(data.elts[i])])
      [] OTHER -> data

\* Texts of the documents, and what the library calls make of them.
\* BeautifulSoup(html).get_text(separator=' ').replace('\n', ' ').strip()
html_text(html) ==
    CASE html = "<p>T2 com garagem e varanda</p>" -> "T2 com garagem e varanda"
      [] html = " Moradia, 3 quartos " -> "Moradia, 3 quartos"
      [] OTHER -> html
\* The keywords of extract_amenities and of the bedrooms fallback that occur
\* in text.lower().
KeywordsIn(text) ==
    CASE text = "T2 com garagem e varanda" -> {"garagem", "varanda"}
      [] text = "Moradia, 3 quartos" -> {"3 quartos"}
      [] OTHER -> {}
StartsWithHtmlDescription(text) == text = "HTML Description"
\* pd.to_datetime(x, errors='coerce', utc=False) of a string
to_datetime(x) ==
    CASE x = "2024-01-01T10:00:00" -> VTs("2024-01-01 10:00:00")
      [] OTHER -> VNull
\* float(x): the number, or VNull when float raises ValueError or TypeError.
to_float(x) ==
    CASE x.t = "int" -> VFloat(x.int, FALSE)
      [] x.t = "float" -> x
      [] x.t = "bool" -> VFloat(IF x.bool THEN 1 ELSE 0, FALSE)
      [] x.t = "str" /\ x.str = "1200" -> VFloat(1200, FALSE)
      [] x.t = "str" /\ x.str = "85.5" -> VFloat(85, TRUE)
      [] OTHER -> VNull
\* int(x): the number, or VNull when int raises ValueError or TypeError.
to_int(x) ==
    CASE x.t = "int" -> x
      [] x.t = "float" -> VNum(x.whole)
      [] x.t = "bool" -> VNum(IF x.bool THEN 1 ELSE 0)
      [] x.t = "str" /\ x.str = "2" -> VNum(2)
      [] OTHER -> VNull
\* re.match(r"T(\d+)", s.upper()) for s.upper() starting with T: the number.
typology_rooms(x) ==
    CASE x = "T2" -> VNum(2)
      [] x = "t3" -> VNum(3)
      [] OTHER -> VNull

\* ad_payload.get('description') with no default: None for a missing key.
description_or_none(ad_payload) == DictGet(ad_payload, "description")

\* extract_basic_info.  BeautifulSoup raises TypeError on markup that is
\* not text.
description_html(ad_payload) == DictGetOr(ad_payload, "description", VStr(""))
BasicInfoRaises(ad_payload) == ~IsStr(description_html(ad_payload))

parsed_time(x) ==
    IF Truthy(x) THEN (IF IsStr(x) THEN to_datetime(x.str) ELSE VNull) ELSE VNull

extract_basic_info(ad_payload) ==
    LET raw_id == DictGet(ad_payload, "id")
    IN  VDict(<<
          <<"id", IF raw_id.t = "float" /\ ~raw_id.half THEN VNum(raw_id.whole)
                  ELSE raw_id>>,
          <<"title", DictGet(ad_payload, "title")>>,
          <<"url", DictGet(ad_payload, "url")>>,
          <<"description_text", VStr(html_text(description_html(ad_payload).str))>>,
          <<"advert_type", DictGet(ad_payload, "advertType")>>,
          <<"advertiser_type_detail", DictGet(ad_payload, "advertiserType")>>,
          <<"status", DictGet(ad_payload, "status")>>,
          <<"created_at", parsed_time(DictGet(ad_payload, "createdAt"))>>,
          <<"modified_at", parsed_time(DictGet(ad_payload, "modifiedAt"))>>,
          <<"slug", DictGet(ad_payload, "slug")>> >>)

CategoryPath == <<VStr("category"), VStr("name"), VNum(0), VStr("value")>>

extract_category_info(ad_payload) ==
    LET first == get_nested_value(ad_payload, CategoryPath, VNull)
        property_type ==
            IF ~Truthy(first)
            THEN get_nested_value(ad_payload, <<VStr("adCategory"), VStr("name")>>, VNull)
            ELSE first
    IN  VDict(<<
          <<"property_type", property_type>>,
          <<"transaction_type",
            get_nested_value(ad_payload, <<VStr("adCategory"), VStr("type")>>, VNull)>> >>)

\* parse_characteristics
NoCharacteristics ==
    VDict(<< <<"price", VNull>>, <<"price_currency", VNull>>, <<"price_period", VNull>>,
             <<"area_m2", VNull>>, <<"typology", VNull>>, <<"bedrooms", VNull>>,
             <<"energy_certificate", VNull>>, <<"bathrooms", VNull>> >>)
\* suffix.replace('/', '').strip()
strip_suffix(x) == IF x = "/mes" THEN "mes" ELSE x
SetIfParsed(d, key, parsed) == IF parsed # VNull THEN DictSet(d, key, parsed) ELSE d

characteristic(parsed, char_item) ==
    IF ~IsDict(char_item) THEN parsed
    ELSE
    LET key == DictGet(char_item, "key")
        value_data == DictGet(char_item, "value")
        localized_value == DictGet(char_item, "localizedValue")
        suffix == DictGetOr(char_item, "suffix", VStr(""))
    IN  CASE key = VStr("price") ->
               DictSet(DictSet(SetIfParsed(parsed, "price", to_float(value_data)),
                               "price_currency", DictGet(char_item, "currency")),
                       "price_period",
                       IF Truthy(suffix) THEN VStr(strip_suffix(suffix.str)) ELSE VNull)
          [] key = VStr("m") -> SetIfParsed(parsed, "area_m2", to_float(value_data))
          [] key = VStr("rooms_num") ->
               SetIfParsed(DictSet(parsed, "typology", localized_value), "bedrooms",
                           IF IsStr(localized_value)
                           THEN typology_rooms(localized_value.str) ELSE VNull)
          [] key = VStr("energy_certificate") ->
               DictSet(parsed, "energy_certificate", localized_value)
          [] key = VStr("bathrooms_num") ->
               SetIfParsed(parsed, "bathrooms", to_int(value_data))
          [] OTHER -> parsed

RECURSIVE characteristics_loop(_, _, _)
characteristics_loop(parsed, list, i) ==
    IF i > Len(list) THEN parsed
    ELSE characteristics_loop(characteristic(parsed, list[i]), list, i + 1)

parse_characteristics(characteristics_list) ==
    IF ~IsList(characteristics_list) THEN NoCharacteristics
    ELSE characteristics_loop(NoCharacteristics, characteristics_list.elts, 1)

\* extract_location_info
extract_location_info(ad_payload) ==
    LET got == DictGetOr(ad_payload, "location", EmptyDict)
        location_data == IF IsDict(got) THEN got ELSE EmptyDict
        At(a, b, c) == get_nested_value(location_data, <<VStr(a), VStr(b), VStr(c)>>, VNull)
        At2(a, b) == get_nested_value(location_data, <<VStr(a), VStr(b)>>, VNull)
    IN  VDict(<<
          <<"address_city", At("address", "city", "name")>>,
          <<"address_county", At("address", "county", "name")>>,
          <<"address_district", At("address", "province", "name")>>,
          <<"latitude", At2("coordinates", "latitude")>>,
          <<"longitude", At2("coordinates", "longitude")>>,
          <<"map_details",
            remove_typename_recursive(DictGetOr(location_data, "mapDetails", EmptyDict))>>,
          <<"reverse_geocoding",
            remove_typename_recursive(DictGetOr(location_data, "reverseGeocoding", EmptyDict))>> >>)

\* extract_contact_info
extract_contact_info(ad_payload) ==
    LET got == DictGetOr(ad_payload, "contactDetails", EmptyDict)
        contact_details == IF IsDict(got) THEN got ELSE EmptyDict
        contact_phones == DictGet(contact_details, "phones")
    IN  VDict(<<
          <<"contact_name", DictGet(contact_details, "name")>>,
          <<"contact_phone",
            IF IsList(contact_phones) /\ contact_phones.elts # <<>>
            THEN contact_phones.elts[1] ELSE VNull>> >>)

\* extract_image_urls
extract_image_urls(ad_payload) ==
    LET images_data == DictGet(ad_payload, "images")
        HasLarge(img) == IsDict(img) /\ Truthy(DictGet(img, "large"))
        kept == IF IsList(images_data) THEN SelectSeq(images_data.elts, HasLarge) ELSE <<>>
    IN  VDict(<< <<"image_urls", VList([i \in DOMAIN kept |-> DictGet(kept[i], "large")])>> >>)

\* extract_amenities
NoFeatures ==
    VDict(<< <<"lift", VNull>>, <<"garage", VNull>>, <<"heating", VNull>>,
             <<"fireplace", VNull>>, <<"balcony", VNull>>, <<"suite", VNull>>,
             <<"kitchen_equipment", VNull>> >>)

lift_item(features, info_item) ==
    IF ~IsDict(info_item) THEN features
    ELSE LET values == DictGet(info_item, "values")
         IN  IF DictGet(info_item, "label") = VStr("lift") /\ IsList(values)
                /\ values.elts # <<>>
             THEN CASE values.elts[1] = VStr("::y") -> DictSet(features, "lift", VBool(TRUE))
                    [] values.elts[1] = VStr("::n") -> DictSet(features, "lift", VBool(FALSE))
                    [] OTHER -> features
             ELSE features

RECURSIVE lift_loop(_, _, _)
lift_loop(features, list, i) ==
    IF i > Len(list) THEN features
    ELSE lift_loop(lift_item(features, list[i]), list, i + 1)

described(features, words) ==
    LET Choice(d, key, first, a, second, b) ==
            IF first \in words THEN DictSet(d, key, a)
            ELSE IF second \in words THEN DictSet(d, key, b) ELSE d
        Flag(d, key, word) == IF word \in words THEN DictSet(d, key, VBool(TRUE)) ELSE d
        garage == Choice(features, "garage", "garagem fechada", VStr("Closed"),
                         "garagem", VStr("Yes"))
        heating == Choice(garage, "heating", "aquecimento central",
                          VStr("Central Heating"), "aquecimento", VStr("Yes"))
        flags == Flag(Flag(Flag(heating, "fireplace", "lareira"), "balcony", "varanda"),
                      "suite", "suite")
    IN  Choice(flags, "kitchen_equipment", "cozinha semi-equipada", VStr("Semi-equipped"),
               "cozinha equipada", VStr("Equipped"))

extract_amenities(ad_payload, description_text) ==
    LET additional_info_list == DictGet(ad_payload, "additionalInformation")
        lifted == IF IsList(additional_info_list)
                  THEN lift_loop(NoFeatures, additional_info_list.elts, 1)
                  ELSE NoFeatures
        other_features_dict ==
            IF Truthy(description_text) /\ IsStr(description_text)
               /\ ~StartsWithHtmlDescription(description_text.str)
            THEN described(lifted, KeywordsIn(description_text.str))
            ELSE lifted
    IN  VDict(<< <<"other_features", other_features_dict>> >>)

\* extract_passthrough_features
extract_passthrough_features(ad_payload) ==
    VDict(<<
      <<"features",
        process_list_for_array_string(DictGetOr(ad_payload, "features", EmptyList))>>,
      <<"featuresByCategory",
        process_list_for_array_string(DictGetOr(ad_payload, "featuresByCategory", EmptyList))>>,
      <<"featuresWithoutCategory",
        process_list_for_array_string(
          DictGetOr(ad_payload, "featuresWithoutCategory", EmptyList))>> >>)

\* process_single_listing_row
bq_schema_keys ==
    << "id", "title", "url", "description_text", "advert_type",
       "advertiser_type_detail", "status", "created_at", "modified_at",
       "property_type", "transaction_type", "price", "price_currency",
       "price_period", "area_m2", "typology", "bedrooms", "energy_certificate",
       "bathrooms", "address_city", "address_county", "address_district",
       "latitude", "longitude", "contact_name", "contact_phone", "image_urls",
       "other_features", "features", "featuresByCategory",
       "featuresWithoutCategory", "map_details", "reverse_geocoding", "slug",
       "ingestionDate" >>

\* json.loads(text): the value, or VNull with JsonFails for text that raises
\* JSONDecodeError.
AdText == "{\"pageProps\": {\"ad\": {\"id\": 42}}}"
JsonFails(text) == text \notin {"{}", "[1]", "null", AdText}
json_loads(text) ==
    CASE text = "{}" -> EmptyDict
      [] text = "[1]" -> VList(<<VNum(1)>>)
      [] text = AdText ->
           VDict(<< <<"pageProps", VDict(<< <<"ad", VDict(<< <<"id", VNum(42)>> >>)>> >>)>> >>)
      [] OTHER -> VNull

props_document(props_content_raw) ==
    CASE IsStr(props_content_raw) ->
           (IF JsonFails(props_content_raw.str) THEN EmptyDict
            ELSE json_loads(props_content_raw.str))
      [] IsDict(props_content_raw) -> props_content_raw
      [] OTHER -> EmptyDict

ad_payload_of(row_series) ==
    LET props_content == normalize_structure(props_document(DictGet(row_series, "props")))
        raw_ad_payload ==
            get_nested_value(props_content, <<VStr("pageProps"), VStr("ad")>>, VNull)
    IN  IF IsDict(raw_ad_payload) THEN raw_ad_payload ELSE EmptyDict

\* The bedrooms read from the description when the characteristics give none.
bedrooms_fallback(final_record) ==
    LET text == Item(final_record, "description_text")
        words == KeywordsIn(text.str)
    IN  IF Item(final_record, "bedrooms") = VNull /\ Truthy(text)
           /\ ~StartsWithHtmlDescription(text.str)
        THEN CASE "3 quartos" \in words -> DictSet(final_record, "bedrooms", VNum(3))
               [] "2 quartos" \in words -> DictSet(final_record, "bedrooms", VNum(2))
               [] "1 quarto" \in words -> DictSet(final_record, "bedrooms", VNum(1))
               [] OTHER -> final_record
        ELSE final_record

\* pd.to_datetime(x).date() of the row's own ingestionDate.
row_ingestion_date(ingestion_date_raw) ==
    IF ~Truthy(ingestion_date_raw) THEN VNull
    ELSE CASE ingestion_date_raw.t = "date" -> ingestion_date_raw
           [] ingestion_date_raw = VTs("2024-01-01 10:00:00") -> VDate(1)
           [] ingestion_date_raw = VStr("2024-01-01T10:00:00") -> VDate(1)
           [] OTHER -> VNull

final_record_of(ad_payload, row_series) ==
    LET \* final_record.update(...), extractor after extractor
        before_amenities ==
            DictOf(extract_basic_info(ad_payload).items
                   \o extract_category_info(ad_payload).items
                   \o parse_characteristics(DictGet(ad_payload, "characteristics")).items
                   \o extract_location_info(ad_payload).items
                   \o extract_contact_info(ad_payload).items
                   \o extract_image_urls(ad_payload).items)
        description_text == DictGet(before_amenities, "description_text")
        updated ==
            DictOf(before_amenities.items
                   \o extract_amenities(ad_payload, description_text).items
                   \o extract_passthrough_features(ad_payload).items)
    IN  DictSet(bedrooms_fallback(updated), "ingestionDate",
                row_ingestion_date(DictGet(row_series, "ingestionDate")))

\* A record that keeps the keys in the order the extractors wrote them.
complete_record_unordered(final_record) == final_record

\* {key: final_record.get(key) for key in bq_schema_keys}, then the
\* containers that must not be null.
complete_record(final_record) ==
    LET picked == [i \in DOMAIN bq_schema_keys |->
                     <<bq_schema_keys[i], DictGet(final_record, bq_schema_keys[i])>>]
        Fixed(kv) ==
            CASE kv[1] \in {"image_urls", "features", "featuresByCategory",
                            "featuresWithoutCategory"} ->
                   (IF IsList(kv[2]) THEN kv ELSE <<kv[1], EmptyList>>)
              [] kv[1] = "other_features" ->
                   (IF IsDict(kv[2]) THEN kv ELSE <<kv[1], NoFeatures>>)
              [] kv[1] \in {"map_details", "reverse_geocoding"} ->
                   (IF IsDict(kv[2]) THEN kv ELSE <<kv[1], EmptyDict>>)
              [] OTHER -> kv
    IN  VDict([i \in DOMAIN picked |-> Fixed(picked[i])])

\* ------------------------------------------------- columns of process_data
\* process_data, column by column, over a raw frame of one record: the
\* source column a target column is read from, the keys walked inside it,
\* and the cast applied.  The columns stand in the order they are assigned.
Col(name, kind, column, path) ==
    [name |-> name, kind |-> kind, column |-> column, path |-> path]
Direct(name, kind) == Col(name, kind, name, <<>>)

assigned_columns ==
    << Direct("id", "required"), Direct("title", "required"), Direct("slug", "required"),
       Direct("estate", "str"), Direct("transaction", "str"),
       Direct("developmentId", "Int64"), Direct("developmentTitle", "str"),
       Direct("developmentUrl", "str"), Direct("isExclusiveOffer", "bool"),
       Direct("isPrivateOwner", "bool"), Direct("isPromoted", "bool"),
       Direct("source", "str"), Direct("openDays", "str"),
       Direct("areaInSquareMeters", "float"),
       Direct("terrainAreaInSquareMeters", "float"), Direct("roomsNumber", "str"),
       Direct("hidePrice", "bool"), Direct("floorNumber", "str"),
       Direct("shortDescription", "str"), Direct("totalPossibleImages", "Int64"),
       Col("city", "nested str", "location", <<"address", "city", "name">>),
       Col("province", "nested str", "location", <<"address", "province", "name">>),
       Col("street", "nested str", "location", <<"address", "street">>),
       Col("mapRadius", "nested float", "location", <<"mapDetails", "radius">>),
       Col("agencyId", "nested Int64", "agency", <<"id">>),
       Col("agencyName", "nested str", "agency", <<"name">>),
       Col("agencySlug", "nested str", "agency", <<"slug">>),
       Col("agencyType", "nested str", "agency", <<"type">>),
       Col("agencyBrandingVisible", "nested boolean", "agency", <<"brandingVisible">>),
       Col("agencyHighlightedAds", "nested boolean", "agency", <<"highlightedAds">>),
       Col("agencyImageUrl", "nested str", "agency", <<"imageUrl">>),
       Col("totalPriceCurrency", "nested str", "totalPrice", <<"currency">>),
       Col("totalPriceValue", "nested float", "totalPrice", <<"value">>),
       Col("pricePerSquareMeterCurrency", "nested str", "pricePerSquareMeter",
           <<"currency">>),
       Col("pricePerSquareMeterValue", "nested float", "pricePerSquareMeter", <<"value">>),
       Direct("dateCreated", "timestamp"), Direct("dateCreatedFirst", "timestamp"),
       Direct("additionalInfo", "None"), Direct("ingestionDate", "today") >>

final_columns ==
    << "id", "title", "slug", "estate", "transaction", "developmentId", "developmentTitle",
       "developmentUrl", "city", "province", "street", "mapRadius", "isExclusiveOffer",
       "isPrivateOwner", "isPromoted", "source", "agencyId", "agencyName", "agencySlug",
       "agencyType", "agencyBrandingVisible", "agencyHighlightedAds", "agencyImageUrl",
       "openDays", "totalPriceCurrency", "totalPriceValue", "pricePerSquareMeterCurrency",
       "pricePerSquareMeterValue", "areaInSquareMeters", "terrainAreaInSquareMeters",
       "roomsNumber", "hidePrice", "floorNumber", "dateCreated", "dateCreatedFirst",
       "shortDescription", "totalPossibleImages", "additionalInfo", "ingestionDate" >>

\* pd.to_numeric(x, errors='coerce'): the number, NaN for what is none.
to_numeric(x) ==
    CASE x.t = "int" -> VFloat(x.int, FALSE)
      [] x.t = "float" -> x
      [] x.t = "str" /\ x.str = "1200" -> VFloat(1200, FALSE)
      [] x.t = "str" /\ x.str = "7" -> VFloat(7, FALSE)
      [] OTHER -> VNull

\* The casts.  astype(str) writes None as "None"; astype(bool) takes the
\* truth value, False for None; astype('Int64') and astype(float) keep a
\* missing number missing; astype('boolean') keeps None missing and raises
\* on what is neither None nor a bool.
as_str(x) == Returned(VStr(py_str(x)))
as_bool(x) == Returned(VBool(Truthy(x)))
as_float(x) == Returned(to_numeric(x))
as_Int64(x) ==
    LET number == to_numeric(x)
    IN  CASE number = VNull -> Returned(VNull)
          [] number.half -> Raised("TypeError")
          [] OTHER -> Returned(VNum(number.whole))
as_boolean(x) ==
    CASE x = VNull -> Returned(VNull)
      [] x.t = "bool" -> Returned(x)
      [] OTHER -> Raised("TypeError")
as_timestamp(x) == Returned(IF IsStr(x) THEN to_datetime(x.str) ELSE VNull)

cast(kind, x) ==
    CASE kind \in {"required", "str", "nested str"} -> as_str(x)
      [] kind = "bool" -> as_bool(x)
      [] kind \in {"float", "nested float"} -> as_float(x)
      [] kind \in {"Int64", "nested Int64"} -> as_Int64(x)
      [] kind = "nested boolean" -> as_boolean(x)
      [] kind = "timestamp" -> as_timestamp(x)

\* gcs_api.py: loc.get(k1, {}).get(k2, {}).get(k3) if isinstance(loc, dict)
\* else None.  A key that holds something other than a dict on the way has
\* no get.
RECURSIVE chained_get(_, _, _)
chained_get(current, path, i) ==
    IF ~IsDict(current) THEN Raised("AttributeError")
    ELSE IF i = Len(path) THEN Returned(DictGet(current, path[i]))
    ELSE chained_get(DictGetOr(current, path[i], EmptyDict), path, i + 1)

IsNested(kind) ==
    kind \in {"nested str", "nested float", "nested Int64", "nested boolean"}

\* gcs_api.py: every source column is read as df[column].
column_main(df, c) ==
    CASE c.kind = "None" -> Returned(VNull)
      [] c.kind = "today" -> Returned(VDate(today))
      [] c.column \notin KeysOf(df) -> Raised("KeyError")
      [] IsNested(c.kind) ->
           LET cell == Item(df, c.column)
               got == IF IsDict(cell) THEN chained_get(cell, c.path, 1)
                      ELSE Returned(VNull)
           IN  IF got.raised # "none" THEN got ELSE cast(c.kind, got.value)
      [] OTHER -> cast(c.kind, Item(df, c.column))

\* gcs_with_prefect_v2.py: id, title and slug are read as df[column], the
\* other columns as df.get(column, default), and the default of a missing
\* column is a scalar: pd.NA, False and None have no astype and no dt, the
\* NaN that to_numeric makes of None casts to float but not to 'Int64'.
\* A missing nested column is a column of None.
column_prefect(df, c) ==
    CASE c.kind = "None" -> Returned(VNull)
      [] c.kind = "today" -> Returned(VDate(today))
      [] IsNested(c.kind) ->
           cast(c.kind, safe_get(DictGet(df, c.column),
                                 [i \in DOMAIN c.path |-> VStr(c.path[i])], VNull))
      [] c.column \in KeysOf(df) -> cast(c.kind, Item(df, c.column))
      [] c.kind = "required" -> Raised("KeyError")
      [] c.kind \in {"str", "bool", "timestamp"} -> Raised("AttributeError")
      [] c.kind = "Int64" -> Raised("TypeError")
      [] c.kind = "float" -> Returned(VNull)

column_of(v, df, c) == IF v = "main" THEN column_main(df, c) ELSE column_prefect(df, c)

\* process_data on a frame of one record: the first column that raises
\* ends the call; otherwise the record, in the order of final_columns.
process_data_columns(v, df) ==
    LET made == [i \in DOMAIN assigned_columns |-> column_of(v, df, assigned_columns[i])]
        Raises(i) == made[i].raised # "none"
        failed == {i \in DOMAIN made : Raises(i)}
        Made(name) == made[CHOOSE i \in DOMAIN made : assigned_columns[i].name = name]
    IN  IF failed # {}
        THEN Raised(made[CHOOSE i \in failed : \A j \in failed : i <= j].raised)
        ELSE Returned(VDict([i \in DOMAIN final_columns |->
                               <<final_columns[i], Made(final_columns[i]).value>>]))

\* --------------------------------------------- transformer functions alone
\* Documents and paths for the extractors: the shapes the listing payload
\* takes around category.name[0].value and adCategory.
ExtractorDocs ==
    { VNull, VStr("flat"), EmptyDict,
      VDict(<< <<"category", VDict(<< <<"name",
                 VList(<<VDict(<< <<"value", VStr("flat")>> >>)>>)>> >>)>> >>),
      VDict(<< <<"category", VDict(<< <<"name", EmptyList>> >>)>> >>),
      VDict(<< <<"category", VDict(<< <<"name", VNull>> >>)>> >>),
      VDict(<< <<"category", VDict(<< <<"name", VStr("flat")>> >>)>> >>),
      VDict(<< <<"category", VNull>> >>),
      VDict(<< <<"category", VList(<<VStr("flat")>>)>> >>),
      VDict(<< <<"adCategory", VDict(<< <<"name", VStr("flat")>>,
                                        <<"type", VStr("SELL")>> >>)>> >>),
      VDict(<< <<"adCategory", VDict(<< <<"name", VNull>>,
                                        <<"type", VNum(1)>> >>)>> >>) }
ExtractorPaths ==
    { <<>>, <<VStr("category")>>, <<VStr("category"), VStr("name")>>,
      <<VStr("category"), VStr("name"), VNum(0), VStr("value")>>,
      <<VStr("category"), VStr("name"), VNum(1), VStr("value")>>,
      <<VStr("category"), VNum(0)>>,
      <<VStr("adCategory"), VStr("name")>>, <<VStr("adCategory"), VStr("type")>>,
      <<VStr("adCategory"), VStr("type"), VStr("name")>> }
ExtractorCalls ==
    { [fn |-> f, arg |-> [doc |-> d, keys |-> k]] :
        f \in {"get_nested_value", "safe_get"}, d \in ExtractorDocs, k \in ExtractorPaths }

\* Items of a features list, and what else the source may hold in place of
\* the list.
MaxItems == 2
ListItems ==
    { VStr("balcony"), VNull, VNum(3), VBool(TRUE), EmptyDict,
      VDict(<< <<"label", VStr("lift")>>, <<"values", VList(<<VStr("::y")>>)>> >>),
      VList(<<VStr("x"), VNum(1)>>) }
FeatureValues ==
    { VList(l) : l \in SeqsUpTo(ListItems, MaxItems) }
      \cup { VNull, VStr("balcony"), VNum(3), EmptyDict,
             VDict(<< <<"label", VStr("lift")>> >>) }
ArrayStringCalls ==
    { [fn |-> "process_list_for_array_string", arg |-> [data_list |-> x]] :
        x \in FeatureValues }

\* Rows of the raw listings frame.  A key of the ad payload is absent or
\* holds one of a few values; the props column holds such a payload under
\* pageProps.ad, or something that is no document at all.
Absent == [t |-> "absent"]
Opt(key, value) == IF value = Absent THEN <<>> ELSE << <<key, value>> >>

LiftInfo(token) ==
    VArr(<< VDict(<< <<"label", VStr("lift")>>, <<"values", VArr(<<VStr(token)>>)>> >>) >>)
SampleCharacteristics ==
    VArr(<< VDict(<< <<"key", VStr("price")>>, <<"value", VStr("1200")>>,
                     <<"currency", VStr("EUR")>>, <<"suffix", VStr("/mes")>> >>),
            VDict(<< <<"key", VStr("rooms_num")>>, <<"localizedValue", VStr("T2")>> >>) >>)

AdPayloads ==
    { VDict(Opt("id", id) \o Opt("description", description) \o Opt("features", features)
            \o Opt("additionalInformation", info) \o Opt("characteristics", chars)) :
        id \in {Absent, VNull, VNum(42), VFloat(42, FALSE)},
        description \in {Absent, VNull, VStr("<p>T2 com garagem e varanda</p>")},
        features \in {Absent, VStr("balcony"), VArr(<<VStr("balcony"), VNull>>)},
        info \in {Absent, LiftInfo("::y"), LiftInfo("::n"), LiftInfo("yes")},
        chars \in {Absent, SampleCharacteristics} }

NoDocuments ==
    { Absent, VNull, VNum(7), VStr("not json"), VStr("[1]"), VStr("{}"),
      VArr(<<VNum(1)>>), EmptyDict,
      VDict(<< <<"pageProps", VNull>> >>),
      VDict(<< <<"pageProps", VDict(<< <<"ad", VStr("gone")>> >>)>> >>) }

PropsValues ==
    NoDocuments \cup {VStr(AdText)}
      \cup { VDict(<< <<"pageProps", VDict(<< <<"ad", ad>> >>)>> >>) : ad \in AdPayloads }

ListingRows ==
    { VDict(Opt("props", props) \o Opt("ingestionDate", date)) :
        props \in PropsValues, date \in {Absent, VDate(1)} }

ListingRowCalls ==
    { [fn |-> "process_single_listing_row", arg |-> [row_series |-> row]] :
        row \in ListingRows }

\* Raw frames of one record for process_data.  SparseRecord carries an id,
\* a slug and a price only.  The other records carry every source column,
\* except that estate, isPromoted, location, agency and totalPrice may be
\* missing, null or malformed.
SamplePrice == VDict(<< <<"value", VStr("1200")>>, <<"currency", VStr("EUR")>> >>)
SparseRecord ==
    VDict(<< <<"id", VNum(42)>>, <<"slug", VStr("flat-x")>>, <<"totalPrice", SamplePrice>> >>)

SampleLocation ==
    VDict(<< <<"address", VDict(<< <<"city", VDict(<< <<"name", VStr("Lisboa")>> >>)>>,
                                   <<"street", VNull>> >>)>>,
             <<"mapDetails", VDict(<< <<"radius", VNum(0)>> >>)>> >>)
SampleAgency ==
    VDict(<< <<"id", VNum(7)>>, <<"name", VStr("Casa")>>, <<"brandingVisible", VBool(TRUE)>>,
             <<"highlightedAds", VBool(FALSE)>> >>)

CommonColumns ==
    << <<"id", VNum(42)>>, <<"title", VStr("T2")>>, <<"slug", VStr("flat-x")>>,
       <<"transaction", VStr("SELL")>>, <<"developmentId", VNull>>,
       <<"developmentTitle", VStr("")>>, <<"developmentUrl", VStr("")>>,
       <<"isExclusiveOffer", VBool(FALSE)>>, <<"isPrivateOwner", VBool(TRUE)>>,
       <<"source", VStr("imovirtual")>>, <<"openDays", VStr("")>>,
       <<"areaInSquareMeters", VNum(85)>>, <<"terrainAreaInSquareMeters", VNull>>,
       <<"roomsNumber", VStr("TWO")>>, <<"hidePrice", VBool(FALSE)>>,
       <<"floorNumber", VNull>>, <<"shortDescription", VStr("")>>,
       <<"totalPossibleImages", VStr("7")>>, <<"pricePerSquareMeter", VNull>>,
       <<"dateCreated", VStr("2024-01-01T10:00:00")>>, <<"dateCreatedFirst", VNull>> >>

RawRecords ==
    {SparseRecord} \cup
    { VDict(CommonColumns \o Opt("estate", estate) \o Opt("isPromoted", promoted)
            \o Opt("location", location) \o Opt("agency", agency)
            \o Opt("totalPrice", price)) :
        estate \in {Absent, VNull, VStr("FLAT")},
        promoted \in {Absent, VNull, VBool(TRUE), VBool(FALSE), VStr("yes")},
        location \in {Absent, VNull, VDict(<< <<"address", VNull>> >>), SampleLocation},
        agency \in {Absent, VNull, SampleAgency,
                    VDict(<< <<"brandingVisible", VStr("yes")>> >>)},
        price \in {Absent, VNull, SamplePrice, VDict(<< <<"value", VStr("abc")>> >>)} }

ProcessDataCalls ==
    { [fn |-> "process_data", arg |-> [v |-> v, df |-> df]] :
        v \in {"main", "prefect"}, df \in RawRecords }

TransformCalls ==
    ExtractorCalls \cup ArrayStringCalls \cup ListingRowCalls \cup ProcessDataCalls

InitTransform ==
    /\ today = 1
    /\ source = NoFile
    /\ tableExists = TRUE
    /\ dest = EmptyBag
    /\ writeDisp = "WRITE_APPEND"
    /\ createDisp = "CREATE_NEVER"
    /\ variant = "main"
    /\ InitRun
    /\ InitFn
    /\ InitCon
    /\ InitAux
    /\ \E c \in TransformCalls : txFn = c.fn /\ txArg = c.arg
    /\ txPayload = <<>>
    /\ txRecord = <<>>
    /\ txOut = <<>>
    /\ txDone = FALSE

TxFrame == UNCHANGED <<today, source, dest, tableExists, envVars, pc, runVars, nRuns,
                       prev, fnVars, conVars, txFn, txArg, auxVars>>

CallGetNestedValue ==
    /\ ~txDone /\ txFn = "get_nested_value"
    /\ txOut' = Returned(get_nested_value(txArg.doc, txArg.keys, VNull))
    /\ txDone' = TRUE
    /\ UNCHANGED <<txPayload, txRecord>>
    /\ TxFrame

CallSafeGet ==
    /\ ~txDone /\ txFn = "safe_get"
    /\ txOut' = Returned(safe_get(txArg.doc, txArg.keys, VNull))
    /\ txDone' = TRUE
    /\ UNCHANGED <<txPayload, txRecord>>
    /\ TxFrame

CallProcessList ==
    /\ ~txDone /\ txFn = "process_list_for_array_string"
    /\ txOut' = Returned(process_list_for_array_string(txArg.data_list))
    /\ txDone' = TRUE
    /\ UNCHANGED <<txPayload, txRecord>>
    /\ TxFrame

\* process_single_listing_row: the payload is read, the extractors fill
\* final_record, and the record is completed; an extractor that raises
\* ends the call.
CallListingRow ==
    /\ ~txDone /\ txFn = "process_single_listing_row"
    /\ txPayload' = ad_payload_of(txArg.row_series)
    /\ txRecord' = IF BasicInfoRaises(txPayload') THEN txRecord
                   ELSE final_record_of(txPayload', txArg.row_series)
    /\ txOut' = IF BasicInfoRaises(txPayload') THEN Raised("TypeError")
                ELSE Returned(complete_record(txRecord'))
    /\ txDone' = TRUE
    /\ TxFrame

CallProcessData ==
    /\ ~txDone /\ txFn = "process_data"
    /\ txOut' = process_data_columns(txArg.v, txArg.df)
    /\ txDone' = TRUE
    /\ UNCHANGED <<txPayload, txRecord>>
    /\ TxFrame

NextTransform ==
    \/ CallGetNestedValue
    \/ CallSafeGet
    \/ CallProcessList
    \/ CallListingRow
    \/ CallProcessData

SpecTransform == InitTransform /\ [][NextTransform]_vars

\* A function called on its own, on one of the arguments of calls.
InitAlone(calls) ==
    /\ today = 1
    /\ source = NoFile
    /\ tableExists = TRUE
    /\ dest = EmptyBag
    /\ writeDisp = "WRITE_APPEND"
    /\ createDisp = "CREATE_NEVER"
    /\ variant = "main"
    /\ InitRun
    /\ InitFn
    /\ InitCon
    /\ InitAux
    /\ \E c \in calls : txFn = c.fn /\ txArg = c.arg
    /\ txPayload = <<>>
    /\ txRecord = <<>>
    /\ txOut = <<>>
    /\ txDone = FALSE

Finish(out) ==
    /\ txOut' = out
    /\ txDone' = TRUE
    /\ UNCHANGED <<txPayload, txRecord>>
    /\ TxFrame

\* ------------------------------------------------------- source selector
\* The objects list_blobs returns, in listing order: whether the name ends
\* with the extension, time_created and updated.  An object is rewritten
\* after it is created, never before.
MaxBlobs == 2
MaxTime == 3
Blobs ==
    { [matches |-> m, time_created |-> c, updated |-> u] :
        m \in BOOLEAN, c \in 1..MaxTime, u \in 1..MaxTime }
Listings == {l \in SeqsUpTo(Blobs, MaxBlobs) :
                \A i \in DOMAIN l : l[i].time_created <= l[i].updated}

matching_files(blobs) == {i \in DOMAIN blobs : blobs[i].matches}

\* gcs_api.py and listings main.py: matching_files.sort(key=time_created),
\* then matching_files[-1].  The sort is stable: of the objects created
\* last, the one listed last.
latest_by_time_created(blobs) ==
    CHOOSE i \in matching_files(blobs) :
        \A j \in matching_files(blobs) :
            \/ blobs[j].time_created < blobs[i].time_created
            \/ blobs[j].time_created = blobs[i].time_created /\ j <= i

\* gcs_with_prefect_v2.py: ts = blob.updated or blob.time_created, sort by
\* ts with reverse=True, then matching_files[0]: of the objects updated
\* last, the one listed first.
latest_by_updated(blobs) ==
    CHOOSE i \in matching_files(blobs) :
        \A j \in matching_files(blobs) :
            \/ blobs[j].updated < blobs[i].updated
            \/ blobs[j].updated = blobs[i].updated /\ i <= j

\* parse_every_listing/utils.py: the loop keeps a blob whose updated is
\* strictly greater than the latest seen so far.
RECURSIVE latest_update_loop(_, _, _, _)
latest_update_loop(blobs, i, latest_blob, latest_update_time) ==
    IF i > Len(blobs) THEN latest_blob
    ELSE IF blobs[i].matches /\ blobs[i].updated > latest_update_time
         THEN latest_update_loop(blobs, i + 1, i, blobs[i].updated)
         ELSE latest_update_loop(blobs, i + 1, latest_blob, latest_update_time)

SelectorNames == {"find_latest_file_in_gcs main", "find_latest_file_in_gcs listings",
                  "find_latest_file_in_gcs prefect", "get_latest_gcs_parquet_uri"}
SelectorCalls ==
    { [fn |-> f, arg |-> [listed |-> r, blobs |-> l]] :
        f \in SelectorNames, r \in {"ok", "NotFound"}, l \in Listings }

\* find_latest_file_in_gcs of gcs_api.py (main) and of listings main.py:
\* None when the listing raises or nothing matches.
FindLatestByCreation(name) ==
    /\ ~txDone /\ txFn = name
    /\ Finish(IF txArg.listed # "ok" \/ matching_files(txArg.blobs) = {}
              THEN Returned(VNull)
              ELSE Returned(VNum(latest_by_time_created(txArg.blobs))))

\* find_latest_file_in_gcs of the Prefect flow: the listing error is raised
\* again, None when nothing matches.
FindLatestPrefect ==
    /\ ~txDone /\ txFn = "find_latest_file_in_gcs prefect"
    /\ Finish(CASE txArg.listed # "ok" -> Raised(txArg.listed)
                [] matching_files(txArg.blobs) = {} -> Returned(VNull)
                [] OTHER -> Returned(VNum(latest_by_updated(txArg.blobs))))

\* get_latest_gcs_parquet_uri: raises when nothing matches.
GetLatestParquetUri ==
    /\ ~txDone /\ txFn = "get_latest_gcs_parquet_uri"
    /\ LET latest_blob == latest_update_loop(txArg.blobs, 1, 0, 0)
       IN  Finish(CASE txArg.listed # "ok" -> Raised(txArg.listed)
                    [] latest_blob = 0 -> Raised("FileNotFoundError")
                    [] OTHER -> Returned(VNum(latest_blob)))

InitSelect == InitAlone(SelectorCalls)
NextSelect ==
    \/ FindLatestByCreation("find_latest_file_in_gcs main")
    \/ FindLatestByCreation("find_latest_file_in_gcs listings")
    \/ FindLatestPrefect
    \/ GetLatestParquetUri
SpecSelect == InitSelect /\ [][NextSelect]_vars

\* ------------------------------------- fetch_district_data and its retries
\* fetch_district_data walks id_list; every page of an id is one call of
\* make_api_call, which is func wrapped by retry_on_failure(retries, delay).
\* One invocation of func returns the page, raises a
\* requests.RequestException, or raises something else.
MaxRetries == 3
MaxPages == 2
Ids == {"x", "y"}
IdLists == {l \in SeqsUpTo(Ids, Cardinality(Ids)) :
               \A i, j \in DOMAIN l : l[i] = l[j] => i = j}
Outcomes == {"ok", "RequestException", "other"}

\* attempts -= 1 in the except clause of the wrapper.
after_failure_kept(n) == n
after_failure(n) == n - 1

\* The items of one page, and the pages 1..n as fetch_district_data
\* collects them with extend.
PagesUpTo(n) == [p \in 1..n |-> p]
SetItem(d, key, value) ==
    [k \in DOMAIN d \cup {key} |-> IF k = key THEN value ELSE d[k]]

InitFetch ==
    /\ today = 1
    /\ source = NoFile
    /\ tableExists = TRUE
    /\ dest = EmptyBag
    /\ writeDisp = "WRITE_APPEND"
    /\ createDisp = "CREATE_NEVER"
    /\ variant = "main"
    /\ InitRun
    /\ InitFn
    /\ InitCon
    /\ txFn = "none"
    /\ txArg = <<>>
    /\ txPayload = <<>>
    /\ txRecord = <<>>
    /\ txOut = <<>>
    /\ txDone = FALSE
    /\ retries \in 0..MaxRetries
    /\ attempts = 0
    /\ invocations = 0
    /\ outcome = "none"
    /\ result = "none"
    /\ id_list \in IdLists
    /\ page_count \in [Ids -> 1..MaxPages]
    /\ fetchPc = "loop"
    /\ idx = 1
    /\ page = 1
    /\ all_data = <<>>
    /\ failedIds = {}
    /\ InitJson
    /\ InitScrape

FetchFrame == UNCHANGED <<today, source, dest, tableExists, envVars, pc, runVars,
                          nRuns, prev, fnVars, conVars, txFn, txArg, txPayload,
                          txRecord, txOut, txDone, retries, id_list, page_count,
                          jsonVars, scrapeVars>>

\* for id in id_list: the next id starts with its first page; after the
\* last id the function returns all_data.
FetchLoop ==
    /\ fetchPc = "loop"
    /\ fetchPc' = IF idx <= Len(id_list) THEN "enter" ELSE "returned"
    /\ page' = 1
    /\ UNCHANGED <<attempts, invocations, outcome, result, idx, all_data, failedIds>>
    /\ FetchFrame

\* wrapper(*args): attempts = retries; with nothing to attempt the while
\* loop is skipped and the terminal exception raised.
WrapperEnter ==
    /\ fetchPc = "enter"
    /\ attempts' = retries
    /\ invocations' = 0
    /\ outcome' = "none"
    /\ result' = IF attempts' > 0 THEN "running" ELSE "terminal"
    /\ fetchPc' = IF attempts' > 0 THEN "invoke" ELSE "except"
    /\ UNCHANGED <<idx, page, all_data, failedIds>>
    /\ FetchFrame

\* One turn of the while loop: return func(*args, **kwargs); a
\* RequestException costs an attempt and, with none left, ends in the
\* terminal exception; any other exception leaves the wrapper as it is.
WrapperInvoke ==
    /\ fetchPc = "invoke"
    /\ invocations' = invocations + 1
    /\ \E o \in Outcomes :
          /\ outcome' = o
          /\ attempts' = IF o = "RequestException" THEN after_failure(attempts)
                         ELSE attempts
          /\ result' = IF o = "ok" THEN "returned"
                       ELSE IF o = "other" THEN "propagated"
                       ELSE IF attempts' > 0 THEN "running" ELSE "terminal"
    /\ fetchPc' = IF result' = "returned" THEN "handle"
                  ELSE IF result' = "running" THEN "invoke" ELSE "except"
    /\ UNCHANGED <<idx, page, all_data, failedIds>>
    /\ FetchFrame

\* The page arrived: page 1 is assigned to all_data[id], a later page
\* extends it; after the last page the loop goes to the next id.
FetchHandle ==
    /\ fetchPc = "handle"
    /\ all_data' = SetItem(all_data, id_list[idx],
                           IF page = 1 THEN PagesUpTo(1)
                           ELSE Append(all_data[id_list[idx]], page))
    /\ IF page < page_count[id_list[idx]]
       THEN page' = page + 1 /\ idx' = idx /\ fetchPc' = "enter"
       ELSE page' = page /\ idx' = idx + 1 /\ fetchPc' = "loop"
    /\ UNCHANGED <<attempts, invocations, outcome, result, failedIds>>
    /\ FetchFrame

\* except Exception: the error is logged and the loop continues with the
\* next id.
FetchExcept ==
    /\ fetchPc = "except"
    /\ failedIds' = failedIds \cup {id_list[idx]}
    /\ idx' = idx + 1
    /\ fetchPc' = "loop"
    /\ UNCHANGED <<attempts, invocations, outcome, result, page, all_data>>
    /\ FetchFrame

NextFetch ==
    \/ FetchLoop
    \/ WrapperEnter
    \/ WrapperInvoke
    \/ FetchHandle
    \/ FetchExcept

SpecFetch == InitFetch /\ [][NextFetch]_vars

\* ----------------------------------- transform_listings_data, row by row
\* The loop of transform_listings_data over the rows of input_df: each row
\* goes through process_single_listing_row, and a record that is truthy is
\* appended to processed_records.  An exception of a row leaves the loop
\* and the function.
MaxFrame == 3
AdDocument(ad) == VDict(<< <<"pageProps", VDict(<< <<"ad", ad>> >>)>> >>)
FrameRows ==
    { VDict(<< <<"props", AdDocument(VDict(<< <<"id", VNum(42)>>,
                   <<"description", VStr("<p>T2 com garagem e varanda</p>")>> >>))>>,
               <<"ingestionDate", VDate(1)>> >>),
      VDict(<< <<"props", AdDocument(VDict(<< <<"id", VNum(43)>> >>))>>,
               <<"ingestionDate", VDate(1)>> >>),
      VDict(<< <<"props", AdDocument(VDict(<<
                   <<"description", VStr("<p>T2 com garagem e varanda</p>")>> >>))>>,
               <<"ingestionDate", VDate(1)>> >>),
      VDict(<< <<"props", VStr("{}")>>, <<"ingestionDate", VDate(1)>> >>),
      VDict(<< <<"props", AdDocument(VDict(<< <<"id", VNum(44)>>,
                   <<"description", VNull>> >>))>>,
               <<"ingestionDate", VDate(1)>> >>) }
FrameCalls ==
    { [fn |-> "transform_listings_data", arg |-> [input_df |-> f, rest |-> f]] :
        f \in SeqsUpTo(FrameRows, MaxFrame) }

InitListings ==
    /\ today = 1
    /\ source = NoFile
    /\ tableExists = TRUE
    /\ dest = EmptyBag
    /\ writeDisp = "WRITE_APPEND"
    /\ createDisp = "CREATE_NEVER"
    /\ variant = "listings"
    /\ InitRun
    /\ InitFn
    /\ InitCon
    /\ InitAux
    /\ \E c \in FrameCalls : txFn = c.fn /\ txArg = c.arg
    /\ txPayload = <<>>
    /\ txRecord = <<>>
    /\ txOut = Returned(EmptyList)
    /\ txDone = FALSE

\* One turn of "for index, original_row in input_df.iterrows()", or, after
\* the last row, pd.DataFrame(processed_records).
TransformListingsRow ==
    /\ ~txDone /\ txFn = "transform_listings_data"
    /\ IF txArg.rest = <<>>
       THEN /\ txDone' = TRUE
            /\ UNCHANGED <<txArg, txPayload, txRecord, txOut>>
       ELSE /\ txArg' = [txArg EXCEPT !.rest = Tail(txArg.rest)]
            /\ txPayload' = ad_payload_of(Head(txArg.rest))
            /\ txRecord' = IF BasicInfoRaises(txPayload') THEN txRecord
                           ELSE final_record_of(txPayload', Head(txArg.rest))
            /\ txOut' = IF BasicInfoRaises(txPayload') THEN Raised("TypeError")
                        ELSE IF Truthy(complete_record(txRecord'))
                        THEN Returned(VList(Append(txOut.value.elts,
                                                   complete_record(txRecord'))))
                        ELSE txOut
            /\ txDone' = BasicInfoRaises(txPayload')
    /\ UNCHANGED <<today, source, dest, tableExists, envVars, pc, runVars, nRuns,
                   prev, fnVars, conVars, txFn, auxVars>>

NextListings == TransformListingsRow

SpecListings == InitListings /\ [][NextListings]_vars

\* The pipeline and the functions called on their own, all at rest.
InitIdle ==
    /\ today = 1
    /\ source = NoFile
    /\ tableExists = TRUE
    /\ dest = EmptyBag
    /\ writeDisp = "WRITE_APPEND"
    /\ createDisp = "CREATE_NEVER"
    /\ variant = "main"
    /\ InitRun
    /\ InitFn
    /\ InitCon
    /\ txFn = "none"
    /\ txArg = <<>>
    /\ txPayload = <<>>
    /\ txRecord = <<>>
    /\ txOut = <<>>
    /\ txDone = FALSE

IdleFrame == UNCHANGED <<today, source, dest, tableExists, envVars, pc, runVars,
                         nRuns, prev, fnVars, conVars, txFn, txArg, txPayload,
                         txRecord, txOut, txDone>>

\* --------------------------------------------------- process_json_files
\* The per-district JSON files of output_dir are read into all_data,
\* written as one Parquet file and removed.  A JSON file is readable, with
\* the items of its id, or reading it raises (open, json.load, or an item
\* that is no dict).
JsonFiles == {"a.json", "b.json"}
Items == {"i", "j"}
MaxFileItems == 2
Contents == {[readable |-> r, items |-> l] :
                r \in BOOLEAN, l \in SeqsUpTo(Items, MaxFileItems)}
Orders(S) == {l \in [1..Cardinality(S) -> S] : \A i, j \in DOMAIN l : l[i] = l[j] => i = j}

\* for id, items in data.items(): for item in items: item["id"] = id.
rows_of(f, content) == [i \in DOMAIN content.items |-> <<f, content.items[i]>>]

\* The JSON files a failed Parquet write leaves in output_dir.
files_cleared(files) == {}
files_after_write_error(files) == files

InitProcessJson ==
    /\ InitIdle
    /\ retries = 0
    /\ attempts = 0
    /\ invocations = 0
    /\ outcome = "none"
    /\ result = "none"
    /\ id_list = <<>>
    /\ page_count = <<>>
    /\ fetchPc = "idle"
    /\ idx = 1
    /\ page = 1
    /\ all_data = <<>>
    /\ failedIds = {}
    /\ InitScrape
    /\ jsonContent \in [JsonFiles -> Contents]
    /\ onDisk \in SUBSET JsonFiles
    /\ outputFile \in {[state |-> "absent", rows |-> <<>>],
                       [state |-> "old", rows |-> <<>>]}
    /\ pjPc = "start"
    /\ json_files = <<>>
    /\ pjData = <<>>
    /\ pjI = 1

JsonFrame == IdleFrame /\ UNCHANGED <<retryVars, fetchVars, scrapeVars, jsonContent>>

\* os.path.exists(output_file), glob and "if not json_files".
PjStart ==
    /\ pjPc = "start"
    /\ IF outputFile.state # "absent"
       THEN json_files' = json_files /\ pjPc' = "returned"
       ELSE /\ json_files' \in Orders(onDisk)
            /\ pjPc' = IF onDisk = {} THEN "returned" ELSE "read"
    /\ UNCHANGED <<onDisk, outputFile, pjData, pjI>>
    /\ JsonFrame

\* One turn of "for json_file in json_files": its rows are appended, or
\* the except clause returns; after the last file, "if not all_data".
PjRead ==
    /\ pjPc = "read"
    /\ IF ~jsonContent[json_files[pjI]].readable
       THEN pjData' = pjData /\ pjI' = pjI /\ pjPc' = "returned"
       ELSE /\ pjData' = pjData \o rows_of(json_files[pjI], jsonContent[json_files[pjI]])
            /\ IF pjI < Len(json_files)
               THEN pjI' = pjI + 1 /\ pjPc' = "read"
               ELSE pjI' = 1 /\ pjPc' = IF pjData' = <<>> THEN "returned" ELSE "write"
    /\ UNCHANGED <<onDisk, outputFile, json_files>>
    /\ JsonFrame

\* pa.Table.from_pandas and pq.write_table: the file is written, or the
\* call raises, with nothing or a partial file at output_file, and the
\* except clause returns.
PjWrite ==
    /\ pjPc = "write"
    /\ \/ /\ outputFile' = [state |-> "written", rows |-> pjData]
          /\ pjPc' = "remove"
          /\ onDisk' = onDisk
       \/ /\ outputFile' \in {[state |-> "absent", rows |-> <<>>],
                              [state |-> "partial", rows |-> <<>>]}
          /\ pjPc' = "returned"
          /\ onDisk' = files_after_write_error(onDisk)
    /\ UNCHANGED <<json_files, pjData, pjI>>
    /\ JsonFrame

\* One turn of "for json_file in json_files: os.remove(json_file)": the
\* file is removed, or os.remove raises and the except clause returns.
PjRemove ==
    /\ pjPc = "remove"
    /\ \/ /\ onDisk' = onDisk \ {json_files[pjI]}
          /\ IF pjI < Len(json_files)
             THEN pjI' = pjI + 1 /\ pjPc' = "remove"
             ELSE pjI' = pjI /\ pjPc' = "returned"
       \/ /\ onDisk' = onDisk
          /\ pjI' = pjI
          /\ pjPc' = "returned"
    /\ UNCHANGED <<outputFile, json_files, pjData>>
    /\ JsonFrame

NextJson ==
    \/ PjStart
    \/ PjRead
    \/ PjWrite
    \/ PjRemove

SpecJson == InitProcessJson /\ [][NextJson]_vars

\* ------------------------------------------------ scrape_and_upload_flow
\* The flow reads the slug column, makes one url of every slug and maps
\* scrape_single_url over the urls, batch after batch.  The task is
\* declared with retries=2: the engine runs it again, up to that many
\* times, when an execution raises, and takes a returned value, None
\* included, as its completion.
task_retries == 2
MaxSlugs == 3
MaxBatch == 2
SlugValues == {VNull, VStr(""), VStr("a"), VStr("b")}
ScrapeOutcomes == {"ok", "timeout", "http_error", "connection_error", "no_tag",
                   "bad_json", "not_a_dict", "unexpected"}

\* df_input['slug'].dropna().astype(str).unique().tolist(), without the
\* empty strings.
read_slugs(column) ==
    LET kept == SelectSeq(column, LAMBDA v : v.t = "str")
        first == SelectSeq([i \in DOMAIN kept |-> [at |-> i, slug |-> kept[i].str]],
                           LAMBDA e : \A j \in 1..(e.at - 1) : kept[j].str # e.slug)
    IN  SelectSeq([i \in DOMAIN first |-> first[i].slug], LAMBDA u : u # "")

\* What the try block of scrape_single_url raises: session.get and
\* raise_for_status raise the requests exceptions, a missing tag and a
\* JSONDecodeError return None inside the block, a document that is no
\* object fails on the item assignment.
raised_in_try(o) ==
    CASE o = "timeout" -> "Timeout"
      [] o = "http_error" -> "HTTPError"
      [] o = "connection_error" -> "ConnectionError"
      [] o = "not_a_dict" -> "TypeError"
      [] o = "unexpected" -> "RuntimeError"
      [] OTHER -> "none"

Superclasses(exc) ==
    IF exc \in {"Timeout", "HTTPError", "ConnectionError"}
    THEN {exc, "RequestException", "Exception"}
    ELSE {exc, "Exception"}

\* The except clauses of scrape_single_url; each returns None.
except_clauses_requests_only == {"Timeout", "HTTPError", "RequestException"}
except_clauses == {"Timeout", "HTTPError", "RequestException", "Exception"}

scrape_single_url(o) ==
    IF raised_in_try(o) = "none"
    THEN [raised |-> "none", value |-> IF o = "ok" THEN "data" ELSE "None"]
    ELSE IF Superclasses(raised_in_try(o)) \cap except_clauses # {}
    THEN [raised |-> "none", value |-> "None"]
    ELSE [raised |-> raised_in_try(o), value |-> "None"]

\* batches[batchIdx - 1]: the positions in urls_to_scrape of one batch.
BatchOf(k) == {i \in DOMAIN urls_to_scrape : ((i - 1) \div batch_size) + 1 = k}
LastBatch == ((Len(urls_to_scrape) - 1) \div batch_size) + 1

InitScrapeFlow ==
    /\ InitIdle
    /\ retries = 0
    /\ attempts = 0
    /\ invocations = 0
    /\ outcome = "none"
    /\ result = "none"
    /\ id_list = <<>>
    /\ page_count = <<>>
    /\ fetchPc = "idle"
    /\ idx = 1
    /\ page = 1
    /\ all_data = <<>>
    /\ failedIds = {}
    /\ InitJson
    /\ slugColumn \in SeqsUpTo(SlugValues, MaxSlugs)
    /\ batch_size \in 1..MaxBatch
    /\ urls_to_scrape = <<>>
    /\ batchIdx = 1
    /\ runCount = <<>>
    /\ taskState = <<>>
    /\ taskResult = <<>>
    /\ scPc = "read"

ScrapeFrame == IdleFrame /\ UNCHANGED <<retryVars, fetchVars, jsonVars,
                                        slugColumn, batch_size>>

\* read_slugs_from_gcs_parquet and urls_to_scrape = [BASE_URL + slug ...].
ScGenerate ==
    /\ scPc = "read"
    /\ urls_to_scrape' = [i \in DOMAIN read_slugs(slugColumn) |->
                            <<"BASE_URL", read_slugs(slugColumn)[i]>>]
    /\ runCount' = [i \in DOMAIN urls_to_scrape' |-> 0]
    /\ taskState' = [i \in DOMAIN urls_to_scrape' |-> "pending"]
    /\ taskResult' = [i \in DOMAIN urls_to_scrape' |-> "none"]
    /\ scPc' = IF urls_to_scrape' = <<>> THEN "save" ELSE "scrape"
    /\ UNCHANGED batchIdx
    /\ ScrapeFrame

\* One execution of scrape_single_url for a url of the current batch, and
\* what the engine makes of it.
ScTaskRun(i) ==
    /\ scPc = "scrape"
    /\ i \in BatchOf(batchIdx)
    /\ taskState[i] \in {"pending", "retrying"}
    /\ runCount' = [runCount EXCEPT ![i] = @ + 1]
    /\ \E o \in ScrapeOutcomes :
          /\ taskState' = [taskState EXCEPT
                             ![i] = IF scrape_single_url(o).raised = "none"
                                    THEN "completed"
                                    ELSE IF runCount'[i] <= task_retries
                                    THEN "retrying" ELSE "failed"]
          /\ taskResult' = [taskResult EXCEPT
                              ![i] = IF scrape_single_url(o).raised = "none"
                                     THEN scrape_single_url(o).value ELSE @]
    /\ UNCHANGED <<urls_to_scrape, batchIdx, scPc>>
    /\ ScrapeFrame

\* results = [future.result() ...] once the tasks of the batch are over: a
\* failed task raises here; otherwise the next batch, or the save.
ScCollect ==
    /\ scPc = "scrape"
    /\ \A i \in BatchOf(batchIdx) : taskState[i] \in {"completed", "failed"}
    /\ IF \E i \in BatchOf(batchIdx) : taskState[i] = "failed"
       THEN scPc' = "failed" /\ batchIdx' = batchIdx
       ELSE IF batchIdx < LastBatch
       THEN scPc' = "scrape" /\ batchIdx' = batchIdx + 1
       ELSE scPc' = "save" /\ batchIdx' = batchIdx
    /\ UNCHANGED <<urls_to_scrape, runCount, taskState, taskResult>>
    /\ ScrapeFrame

\* save_data_to_gcs when something was scraped: it returns the path or
\* raises; with nothing scraped the save is skipped.
ScSave ==
    /\ scPc = "save"
    /\ \/ scPc' = "done"
       \/ /\ \E i \in DOMAIN taskResult : taskResult[i] = "data"
          /\ scPc' = "failed"
    /\ UNCHANGED <<urls_to_scrape, batchIdx, runCount, taskState, taskResult>>
    /\ ScrapeFrame

NextScrape ==
    \/ ScGenerate
    \/ \E i \in DOMAIN urls_to_scrape : ScTaskRun(i)
    \/ ScCollect
    \/ ScSave

SpecScrape == InitScrapeFlow /\ [][NextScrape]_vars

\* ================================================================ claims
\* The run has left check_existing_keys_in_bigquery.
CheckExited == pc \in {"filter", "load", "job", "get_table", "done", "failed"}
CheckErrors == {"KeyError", "create_temp", "stage", "query"}
PipelineDone == pc = "done" /\ checked /\ filtered
NoRepeatedRow(df) == \A i, j \in DOMAIN df : df[i] = df[j] => i = j

\* C1: running the pipeline twice in sequence on the same batch (same keys,
\* default WRITE_APPEND, destination free of duplicates before the first
\* run) leaves every key of the batch exactly once in the destination, and
\* the second run loads zero rows -- also when a key occurs on two rows.
C1_Idempotent ==
    (PipelineDone /\ prev.ok /\ prev.clean /\ prev.batch = batch
       /\ writeDisp = "WRITE_APPEND")
    => /\ \A k \in Range(batch) : CopiesIn(k, dest) = 1
       /\ committed => newData = <<>>

\* C2: after two sequential runs over two files whose key sets overlap,
\* from a destination without duplicates, every key of either file is in
\* the destination exactly once.  (Files that repeat a key on two rows are
\* left to C1.)
C2_Union ==
    (PipelineDone /\ prev.ok /\ prev.clean /\ writeDisp = "WRITE_APPEND"
       /\ NoRepeatedRow(batch) /\ NoRepeatedRow(prev.batch)
       /\ Range(batch) \cap Range(prev.batch) # {})
    => \A k \in Range(batch) \cup Range(prev.batch) : CopiesIn(k, dest) = 1

\* C3: a run that has submitted a load job has first had its batch checked
\* by check_existing_keys_in_bigquery and filtered by filter_out_duplicates.
C3_CheckedBeforeLoad == loads > 0 => checked /\ filtered

\* C4: the keys check_existing_keys_in_bigquery returns are exactly the
\* distinct keys of the batch that the destination holds, keys with a null
\* component included.
C4_ExistingKeysExact ==
    pc = "filter" => existing = {k \in Range(batch) : BagIn(k, dest)}

\* C5: filter_out_duplicates removes exactly the rows whose key, with the
\* ingestionDate normalised to a date, is in existing_keys: all of those
\* and no other row, in each of the three variants.
C5_FilterExact ==
    LET InKeys(r) == <<r[1], to_date(r[2])>> \in fnKeys
        NotInKeys(r) == ~InKeys(r)
    IN  fnDone => fnOut = SelectSeq(fnDf, NotInKeys)

\* C6: once the temporary lookup table has been created, its deletion has
\* been attempted by the time check_existing_keys_in_bigquery is left, on
\* the normal return and on a failed staging load or join query alike.
C6_DeleteAttempted == (tempCreated /\ CheckExited) => delAttempted

\* C7: a failed deletion of the temporary table changes nothing of the
\* outcome: after a successful join the caller still receives the keys
\* found and no error of the check; after a failed staging load or join
\* that error is the one that ends the run; the deletion error never does.
C7_DeleteFailureHarmless ==
    delFailed =>
       /\ err # "delete"
       /\ joined => (checked /\ existing = found /\ err \notin CheckErrors)
       /\ ~joined => (pc = "failed" /\ err \in {"stage", "query"})

C7_Witness == delFailed /\ joined /\ found # {} /\ pc = "done"

\* C8: when the deduplicated batch is empty the run submits no load job and
\* does not fail.
C8_EmptyBatchNoLoad ==
    (filtered /\ newData = <<>>) => (loads = 0 /\ pc # "failed")

\* C9: whatever the write and create dispositions, a committed load keeps
\* every row that was in the destination and adds the rows of the batch.
C9_PureAppend == committed => dest = destAtLoad (+) BagOfSeq(newData)

\* C10 as first stated: all rows of the batch are visible or none, and a
\* run that completes has submitted exactly one load job for its batch.
NoneVisible == dest = destAtLoad
AllVisible ==
    \/ dest = destAtLoad (+) BagOfSeq(newData)
    \/ dest = BagOfSeq(newData)
AllOrNothing ==
    /\ loads = 0 => dest = destAtStart
    /\ loads > 0 => IF committed THEN AllVisible ELSE NoneVisible

C10_ExactlyOneLoad ==
    /\ AllOrNothing
    /\ (pc = "done" /\ filtered) => loads = 1

\* C10, amended: all rows of the batch are visible or none, in every state
\* of a run; a run submits at most one load job, and a run that completes
\* with a non-empty batch has submitted exactly one, which has committed.
C10_AtomicSingleLoad ==
    /\ AllOrNothing
    /\ loads <= 1
    /\ (pc = "done" /\ newData # <<>>) => loads = 1
    /\ (pc = "done" /\ loads = 1) => committed

C10_Witness == pc = "failed" /\ committed /\ Len(newData) >= 2 /\ filtered

\* C11: two runs at the same time on batches that share a key which the
\* destination lacks can both be told that the key is new; once both have
\* loaded, the destination holds that key on two rows at least.  No step
\* between the check and the load looks at the destination again.
C11_BothLoadSharedKey ==
    \A k \in Range(conBatch[1]) \cap Range(conBatch[2]) :
        (/\ conPc[1] = "done" /\ conPc[2] = "done"
         /\ k \notin conExisting[1] /\ k \notin conExisting[2])
        => CopiesIn(k, dest) >= 2

C11_Witness ==
    /\ conPc[1] = "done" /\ conPc[2] = "done"
    /\ NoRepeatedRow(conBatch[1]) /\ NoRepeatedRow(conBatch[2])
    /\ \E k \in Range(conBatch[1]) \cap Range(conBatch[2]) :
          /\ k \notin conExisting[1] /\ k \notin conExisting[2]
          /\ CopiesIn(k, dest) = 2

\* C12: a transformer given an empty input returns an empty batch, and the
\* key check, the filter and the load that follow it in the run raise no
\* error of their own on that empty batch.
PastTransform == pc \in {"check", "create_temp", "stage", "query", "cleanup",
                         "filter", "load", "job", "get_table", "done", "failed"}

C12_EmptyInputCompletes ==
    (file.present /\ file.rows = <<>> /\ PastTransform)
    => (batch = <<>> /\ err # "KeyError")

\* C19: the nested field extractors never raise and return the value found
\* by walking the path, where a string segment selects a key of a mapping
\* and an integer segment selects an item of a list; the default is
\* returned as soon as a segment cannot be followed.
RECURSIVE WalkPath(_, _, _, _)
WalkPath(current, keys, i, default) ==
    IF i > Len(keys) THEN current
    ELSE IF IsDict(current) /\ HasKey(current, keys[i])
         THEN WalkPath(Item(current, keys[i].str), keys, i + 1, default)
    ELSE IF IsList(current) /\ keys[i].t = "int"
            /\ keys[i].int >= 0 /\ keys[i].int < Len(current.elts)
         THEN WalkPath(current.elts[keys[i].int + 1], keys, i + 1, default)
    ELSE default

C19_ExtractorWalksPath ==
    (txDone /\ txFn \in {"get_nested_value", "safe_get"})
    => /\ txOut.raised = "none"
       /\ IsDict(txArg.doc) => txOut.value = WalkPath(txArg.doc, txArg.keys, 1, VNull)

\* The keys of a record, in the order it holds them.
KeySeq(d) == [i \in DOMAIN d.items |-> d.items[i][1]]

\* C13: every record a transformer returns has exactly the declared fields
\* in the declared order, final_columns for process_data and bq_schema_keys
\* for process_single_listing_row, whichever source keys the raw record had.
C13_DeclaredFieldsInOrder ==
    (txDone /\ txOut.raised = "none")
    => /\ txFn = "process_data" => KeySeq(txOut.value) = final_columns
       /\ txFn = "process_single_listing_row" => KeySeq(txOut.value) = bq_schema_keys

C13_Witness ==
    /\ txDone /\ txFn = "process_single_listing_row"
    /\ txOut.raised = "none"
    /\ KeysOf(txPayload) = {"id", "characteristics"}
    /\ KeySeq(txRecord) # bq_schema_keys
    /\ KeySeq(txOut.value) = bq_schema_keys

\* C14: when an optional source column of the raw record is absent or null,
\* process_data returns a record in the order of final_columns whose fields
\* read from that column are null.
OptionalColumns ==
    {i \in DOMAIN assigned_columns :
        assigned_columns[i].kind \notin {"required", "None", "today"}}
Missing(df, column) == DictGet(df, column) = VNull

C14_MissingOptionalIsNull ==
    (txDone /\ txFn = "process_data")
    => \A i \in OptionalColumns :
         Missing(txArg.df, assigned_columns[i].column)
         => /\ txOut.raised = "none"
            /\ KeySeq(txOut.value) = final_columns
            /\ Item(txOut.value, assigned_columns[i].name) = VNull

\* C15: process_data on the record that carries only id = 42,
\* slug = "flat-x" and totalPrice = {value: "1200", currency: "EUR"}
\* returns id = "42", slug = "flat-x", totalPriceValue = 1200.0,
\* totalPriceCurrency = "EUR" and null in every other field.
C15_SparseRecordExtracted ==
    (txDone /\ txFn = "process_data" /\ txArg.df = SparseRecord)
    => /\ txOut.raised = "none"
       /\ KeySeq(txOut.value) = final_columns
       /\ \A i \in DOMAIN final_columns :
            Item(txOut.value, final_columns[i])
              = CASE final_columns[i] = "id" -> VStr("42")
                  [] final_columns[i] = "slug" -> VStr("flat-x")
                  [] final_columns[i] = "totalPriceValue" -> VFloat(1200, FALSE)
                  [] final_columns[i] = "totalPriceCurrency" -> VStr("EUR")
                  [] OTHER -> VNull

\* C16: a boolean field whose source value is absent, null or no true/false
\* value comes out null: the boolean columns of process_data, and
\* other_features.lift of process_single_listing_row.
BooleanColumns ==
    {i \in DOMAIN assigned_columns :
        assigned_columns[i].kind \in {"bool", "nested boolean"}}
SourceValue(df, c) ==
    IF c.path = <<>> THEN DictGet(df, c.column)
    ELSE safe_get(DictGet(df, c.column), [i \in DOMAIN c.path |-> VStr(c.path[i])], VNull)
LiftToken(ad_payload) ==
    get_nested_value(ad_payload,
                     <<VStr("additionalInformation"), VNum(0), VStr("values"), VNum(0)>>,
                     VNull)

C16_UnrecognisedBooleanIsNull ==
    /\ (txDone /\ txFn = "process_data")
       => \A i \in BooleanColumns :
            SourceValue(txArg.df, assigned_columns[i]).t # "bool"
            => /\ txOut.raised = "none"
               /\ Item(txOut.value, assigned_columns[i].name) = VNull
    /\ (txDone /\ txFn = "process_single_listing_row" /\ txOut.raised = "none")
       => (LiftToken(txPayload) \notin {VStr("::y"), VStr("::n")}
           => Item(Item(txOut.value, "other_features"), "lift") = VNull)

\* C17: the string-array coercion turns a dict into a list holding its
\* serialisation, a scalar into a one-element list holding its string
\* form, null into the empty list, and passes a list through.
StringArrayOf(x) ==
    CASE IsList(x)   -> process_list_for_array_string(x)
      [] x = VNull  -> EmptyList
      [] IsDict(x)   -> VList(<<VStr(json_dumps(x))>>)
      [] OTHER       -> VList(<<VStr(py_str(x))>>)

C17_NonListCoercion ==
    (txDone /\ txFn = "process_list_for_array_string")
    => /\ txOut.raised = "none"
       /\ txOut.value = StringArrayOf(txArg.data_list)

\* C18: process_list_for_array_string on a list never raises, returns a
\* list of the same length, and item i of the result is the normal form of
\* item i of the input alone: a string is kept, a dict becomes its JSON
\* text, null becomes the empty string, another value its string form.
NormalForm(item) ==
    CASE IsStr(item)   -> item
      [] IsDict(item)  -> VStr(json_dumps(item))
      [] item = VNull -> VStr("")
      [] OTHER         -> VStr(py_str(item))

C18_ListNormalization ==
    (txDone /\ txFn = "process_list_for_array_string" /\ IsList(txArg.data_list))
    => LET in == txArg.data_list.elts
       IN  /\ txOut.raised = "none"
           /\ IsList(txOut.value)
           /\ Len(txOut.value.elts) = Len(in)
           /\ \A i \in DOMAIN in :
                /\ txOut.value.elts[i] = NormalForm(in[i])
                /\ txOut.value.elts[i]
                     = process_list_for_array_string(VList(<<in[i]>>)).elts[1]

C18_Witness ==
    /\ txDone /\ txFn = "process_list_for_array_string"
    /\ IsList(txArg.data_list) /\ Len(txArg.data_list.elts) = 2
    /\ txArg.data_list.elts[1] = VNull
    /\ IsDict(txArg.data_list.elts[2]) /\ txArg.data_list.elts[2] # EmptyDict
    /\ txOut.value.elts[1] = VStr("")

\* C20: a row whose props column holds no mapping, or text that does not
\* parse, is taken as an empty document: process_single_listing_row does
\* not raise and every field read from the document has its default.
IsNoDocument(row) ==
    LET props == DictGetOr(row, "props", Absent)
    IN  \/ props.t \notin {"dict", "str"}
        \/ IsStr(props) /\ JsonFails(props.str)

DefaultOf(key) ==
    CASE key \in {"image_urls", "features", "featuresByCategory",
                  "featuresWithoutCategory"} -> EmptyList
      [] key \in {"map_details", "reverse_geocoding"} -> EmptyDict
      [] key = "other_features" -> NoFeatures
      [] OTHER -> VNull

\* As first stated: null for every scalar field.
C20_AllFieldsNull ==
    (txDone /\ txFn = "process_single_listing_row" /\ IsNoDocument(txArg.row_series))
    => /\ txOut.raised = "none"
       /\ \A key \in Range(bq_schema_keys) :
            Item(txOut.value, key) = DefaultOf(key)

\* Amended: description_text is the empty string, ingestionDate is the
\* row's own, every other field has its default.
C20_EmptyDocumentDefaults ==
    (txDone /\ txFn = "process_single_listing_row" /\ IsNoDocument(txArg.row_series))
    => /\ txOut.raised = "none"
       /\ KeySeq(txOut.value) = bq_schema_keys
       /\ \A key \in Range(bq_schema_keys) :
            Item(txOut.value, key)
              = CASE key = "description_text" -> VStr("")
                  [] key = "ingestionDate" ->
                       row_ingestion_date(DictGet(txArg.row_series, "ingestionDate"))
                  [] OTHER -> DefaultOf(key)

C20_Witness ==
    /\ txDone /\ txFn = "process_single_listing_row"
    /\ DictGet(txArg.row_series, "props") = VStr("not json")
    /\ txOut.raised = "none"
    /\ Item(txOut.value, "description_text") = VStr("")
    /\ Item(txOut.value, "id") = VNull

\* C21: when the listing holds an object whose name ends with the
\* extension, the selector returns such an object, and none of them has a
\* later updated timestamp than the one returned.
IsSelector == txDone /\ txFn \in SelectorNames /\ txArg.listed = "ok"

C21_LatestByUpdated ==
    (IsSelector /\ matching_files(txArg.blobs) # {})
    => /\ txOut.raised = "none"
       /\ txOut.value.t = "int"
       /\ txOut.value.int \in matching_files(txArg.blobs)
       /\ \A j \in matching_files(txArg.blobs) :
            txArg.blobs[j].updated <= txArg.blobs[txOut.value.int].updated

\* C22: a run that finds no eligible source object ends with the "nothing
\* to do" outcome: no error, no exit status 1, and no read, key check or
\* load.
C22_NoSourceIsGraceful ==
    (pc \in Ended /\ ~source.present /\ err = "none")
    => /\ pc = "nothing"
       /\ ~checked /\ ~filtered /\ loads = 0 /\ batch = <<>>

\* C23: a network-bound operation of a run that raises is attempted again:
\* the step in which an operation raises for the first time in the run
\* leaves the run at that operation instead of ending it.
NetworkErrors == {"list", "read", "create_temp", "stage", "query", "load", "get_table"}

C23_TransientFailureIsRetried ==
    [][(err = "none" /\ err' \in NetworkErrors) => pc' = pc]_vars

\* C24: a run that ends with an error has committed nothing: when it has
\* failed, the destination table is as it was when the run started.
C24_FailureCommitsNothing ==
    pc = "failed" => dest = destAtStart

\* C25: the temporary lookup table is created fresh for each invocation of
\* check_existing_keys_in_bigquery: two invocations that are both between
\* naming their table and having cleaned it up never work on one table,
\* also when they start within the same second.
UsesTempTable(r) == conPc[r] \in {"create", "stage", "query", "cleanup"}
C25_NoSharedTempTable ==
    \A r, q \in Runs :
        (r # q /\ UsesTempTable(r) /\ UsesTempTable(q)) => conTemp[r] # conTemp[q]

\* C26: fetch_district_data goes through every id of id_list whatever
\* fails, and what it returns has no partial entry: an id one of whose pages
\* failed is absent from the result, every other id has all its pages.
C26_FailedIdIsAbsent ==
    fetchPc = "returned" =>
        /\ idx = Len(id_list) + 1
        /\ \A i \in DOMAIN id_list :
              IF id_list[i] \in failedIds
              THEN id_list[i] \notin DOMAIN all_data
              ELSE /\ id_list[i] \in DOMAIN all_data
                   /\ all_data[id_list[i]] = PagesUpTo(page_count[id_list[i]])

\* C27: retry_on_failure(retries=n) invokes the function at most n times.
\* A success returns at once, an exception that is no RequestException
\* propagates at once, a RequestException is followed by a new attempt
\* while fewer than n were made, and after n failed attempts the wrapper
\* raises its terminal exception.
C27_RetryBounded ==
    /\ invocations <= retries
    /\ result = "running" => (attempts > 0 /\ invocations < retries)
    /\ result = "terminal" => invocations = retries
    /\ outcome = "ok" => result = "returned"
    /\ outcome = "other" => result = "propagated"
    /\ outcome = "RequestException" =>
          result = (IF invocations < retries THEN "running" ELSE "terminal")

\* The wrapper gave up after several failed attempts.
C27_Witness ==
    /\ retries > 1
    /\ result = "terminal"
    /\ invocations = retries
    /\ outcome = "RequestException"

\* C28: process_json_files removes a JSON file only after the Parquet file
\* was written: a file that glob found and that is gone from output_dir has
\* all its items in the written Parquet file, so on every path without a
\* written Parquet file all the JSON files are still in place.
C28_RemovedOnlyAfterWrite ==
    \A i \in DOMAIN json_files :
        json_files[i] \notin onDisk =>
            /\ outputFile.state = "written"
            /\ \A k \in DOMAIN jsonContent[json_files[i]].items :
                  <<json_files[i], jsonContent[json_files[i]].items[k]>>
                      \in Range(outputFile.rows)

\* Both JSON files were read, written to Parquet and then removed.
C28_Witness ==
    /\ pjPc = "returned"
    /\ outputFile.state = "written"
    /\ Len(json_files) = 2
    /\ onDisk = {}
    /\ \E i \in DOMAIN json_files : jsonContent[json_files[i]].items # <<>>

\* The Parquet write failed and the JSON files are where they were.
C28_WitnessWriteFailed ==
    /\ pjPc = "returned"
    /\ outputFile.state = "partial"
    /\ Range(json_files) = onDisk
    /\ onDisk # {}

\* C29: transform_listings_data returns one record for every row of
\* input_df, in the order of the rows (the record at position i carries the
\* id of the document of row i), whatever the rows hold: it does not raise
\* and the output has the length of the input.
C29_OneRecordPerRow ==
    (txDone /\ txFn = "transform_listings_data") =>
        /\ txOut.raised = "none"
        /\ Len(txOut.value.elts) = Len(txArg.input_df)
        /\ \A i \in DOMAIN txArg.input_df :
              i \in DOMAIN txOut.value.elts =>
                  Item(txOut.value.elts[i], "id")
                      = DictGet(ad_payload_of(txArg.input_df[i]), "id")

\* C30: scrape_single_url never raises, whatever fails, so no task run is
\* retried or failed and every url is requested at most once in a run of
\* the flow: the urls are all different and each has at most one execution.
C30_ScrapedOnce ==
    /\ \A o \in ScrapeOutcomes : scrape_single_url(o).raised = "none"
    /\ \A i \in DOMAIN urls_to_scrape :
          /\ runCount[i] <= 1
          /\ taskState[i] \in {"pending", "completed"}
          /\ \A j \in DOMAIN urls_to_scrape : urls_to_scrape[i] = urls_to_scrape[j] => i = j

\* The slug column repeats a slug, and a url whose scrape failed was
\* requested once and completed with None.
C30_Witness ==
    /\ scPc = "done"
    /\ \E i, j \in DOMAIN slugColumn : i # j /\ slugColumn[i] = slugColumn[j]
                                       /\ slugColumn[i] \in {VStr("a"), VStr("b")}
    /\ \E i \in DOMAIN urls_to_scrape :
          /\ taskState[i] = "completed"
          /\ taskResult[i] = "None"
          /\ runCount[i] = 1

====
